---- MODULE Spec2Model ----
(***************************************************************************)
(* Verification model of three subsystems of the HDF5 library:             *)
(*   - the library-wide API lock (H5TS), in its two build variants,        *)
(*   - the DLFTT-aware mutex and the "regular" free lists (H5FL),          *)
(*   - the dirty-region list of the in-memory ("core") file driver.        *)
(* Each subsystem has its own specification over the same variables; the   *)
(* variables of the other subsystems stay at their initial values.         *)
(***************************************************************************)
EXTENDS Integers, Sequences, FiniteSets, TLC

(* ------------------------------------------------------------------ *)
(* Bounds                                                              *)
(* ------------------------------------------------------------------ *)

\* number of threads using the API lock
NumThreads == 2

\* largest lock_count argument passed to H5TS__api_mutex_acquire
MaxLockCount == 2

\* cap on the recursion depth a thread builds up on the API lock
MaxHold == 2

\* cap on the number of H5TS_api_lock calls in a behaviour
MaxAttempts == 1

Threads == 1..NumThreads

\* the owner field of a lock nobody holds
NoThread == NumThreads + 1

(* ------------------------------------------------------------------ *)
(* State                                                               *)
(* ------------------------------------------------------------------ *)

VARIABLES
    build,               \* "THREADSAFE" or "CONCURRENCY": which #ifdef branch is compiled
    api_mutex,           \* H5TS_api_info_p.api_mutex (recursive): [owner, count]
    lock_count,          \* H5TS_api_info_p.lock_count (THREADSAFE)
    api_lock,            \* H5TS_api_info_p.api_lock (rw-lock): [write_thread, rec_write_lock_count]
    attempt_lock_count,  \* H5TS_api_info_p.attempt_lock_count
    dlftt,               \* per-thread H5TS_thread_info_t.dlftt
    pos,                 \* where each thread is: "out" (application code), "api" (inside an
                         \* API routine), "cb" (user callback run by an API routine)
    pc,                  \* position inside the H5TS routine the thread is executing
    arg_n,               \* lock_count argument of the running H5TS__api_mutex_acquire
    loop_u,              \* loop variable u of the running acquire / release
    acquired,            \* *acquired of the thread's last mutex_acquire: "true", "false", "none"
    prev_count,          \* *lock_count reported by the thread's last mutex_release
    saved_dlftt,         \* dlftt passed back by H5TS_api_lock to the API routine
    cb_entry,            \* hold count at the moment the user callback was entered
    sum_n,               \* ledger: sum of n of the thread's unmatched successful acquires
    other_holds,         \* ledger: holds from H5TS_api_lock / H5TS_user_cb_prepare
    rel_sum_n,           \* sum_n when the thread's last release was called
    before               \* hold count and lock depth when the running acquire was called

\* the DLFTT-aware mutex (H5TS_dlftt_mutex_t) on its own
VARIABLES
    dl_mtx,              \* the mutex: [owner (of mtx->mtx), dlftt (mtx->dlftt, the snapshot)]
    dl_pc,               \* per thread: "out", "acq" (snapshot stored, lock not yet decided), "in"
    dl_ops,              \* per thread: H5TS_mutex_lock/unlock calls made in its current pair
    dl_pos               \* per thread: its DLFTT has been > 0 throughout its current pair

\* the "regular" free lists (H5FL_reg_head_t) and their garbage-collection head
VARIABLES
    reg_lst_mem_lim,     \* H5FL_reg_lst_mem_lim
    reg_glb_mem_lim,     \* H5FL_reg_glb_mem_lim
    fl_allocated,        \* per head: head->allocated
    fl_onlist,           \* per head: head->onlist (length of head->list)
    fl_mutex,            \* per head: owner of head->mutex
    gc_mutex,            \* owner of H5FL_reg_gc_head.mutex
    mem_freed,           \* H5FL_reg_gc_head.mem_freed (atomic)
    fl_out,              \* per head: blocks handed out to callers and not freed yet
    fl_pc,               \* per thread: position in the H5FL routine it executes
    fl_h,                \* per thread: head argument of the running malloc / free
    fl_g,                \* per thread: head of the running H5FL__reg_gc_list
    fl_loc,              \* per thread: local variable "onlist" of the running routine
    fl_ret,              \* per thread: where the running H5FL__reg_gc_list returns to
    seq_K,               \* scripted run: number of blocks to allocate and free (0: no script)
    seq_h,               \* scripted run: the head used
    seq_alloc,           \* scripted run: mallocs completed
    seq_free,            \* scripted run: frees completed
    gc_passes,           \* scripted run: H5FL__reg_gc_list passes over the head
    fl_ran               \* ledger, per thread: its current or last H5FL_reg_free has called
                         \* H5FL__reg_gc_list

\* the dirty-region list of the core driver (H5FD_core_t)
VARIABLES
    c_eof,               \* file->pub eof: size of the in-memory buffer
    c_increment,         \* file->increment
    c_page_size,         \* file->bstore_page_size
    c_dirty_list,        \* file->dirty_list: the regions [start, end] in key order
    c_written,           \* ledger: the addresses written since the last flush that acted
    c_pages,             \* ledger: the pages touched by the writes since then
    c_clamped,           \* ledger: a region's rounded end reached eof or beyond, since then
    c_tracking,          \* file->dirty_list != NULL
    c_mem,               \* file->mem: the bytes of the buffer, from address 0 on
    c_shadow,            \* ledger: the byte last written to each address written since then
                         \* (and, where the initial content is followed, the bytes of that)
    c_rd,                \* the last H5FD__core_read: [addr, size, buf], <<>> before any read
    c_backing_store,     \* file->backing_store
    c_file_opened,       \* file->file_opened: the backing file is open
    c_write_tracking,    \* file->write_tracking
    c_flags              \* ledger: the flags of the open, [rdwr, creat]

\* the POSIX file below a driver (H5FD_posix_common_t); its eof field is c_eof
VARIABLES
    pc_eoa,              \* file->eoa
    pc_pos,              \* file->pos: HADDR_UNDEF or the offset after the last I/O
    pc_op,               \* file->op: "UNKNOWN", "READ" or "WRITE"
    pc_flen,             \* length of the file behind file->fd
    pc_off,              \* offset of the descriptor file->fd
    pc_pread,            \* the build has H5_HAVE_PREADWRITE
    pc_last              \* ledger: the last driver call and what it did

\* a recursive reader/writer lock (H5TS_rw_lock_t) and its users
VARIABLES
    rw_lock_type,               \* lock_type: "UNUSED", "READ" or "WRITE"
    rw_write_thread,            \* write_thread
    rw_rec_write_lock_count,    \* rec_write_lock_count
    rw_waiting_writers_count,   \* waiting_writers_count
    rw_active_reader_threads,   \* active_reader_threads
    rw_rec_read_lock_count,     \* per thread: the value under rec_read_lock_count_key
    rw_pc,                      \* per thread: "out", "rd_wait" (on readers_cv), "wr_wait" (on writers_cv)
    rw_woken,                   \* the waiting threads a signal or broadcast has woken
    rw_done,                    \* per thread: it has begun to give back its holds
    rw_log                      \* ledger: a reader was waiting when the writer was admitted after a wait

\* a barrier (H5TS_barrier_t) and its users
VARIABLES
    bar_threshold,              \* threshold
    bar_entered,                \* entered
    bar_pc,                     \* per thread: "out" or "wait" (on cv)
    bar_woken,                  \* the waiting threads the broadcast has released
    bar_cycle,                  \* ledger: the cycles completed
    bar_arrived,                \* ledger: the arrivals of the current cycle
    bar_mycycle,                \* ledger, per thread: the cycle of its last wait()
    bar_returned                \* ledger, per thread: the wait() calls that returned

\* the registry of per-thread info records
VARIABLES
    ti_next_thrd_id,            \* H5TS_next_thrd_id_s
    ti_next_free,               \* H5TS_tinfo_next_free_s: the recycled records, first one first
    ti_mtx,                     \* H5TS_tinfo_mtx_s: its owner
    ti_key,                     \* per thread: the record under H5TS_thrd_info_key_g, 0 for NULL
    ti_id,                      \* per record: info.id
    ti_nodes,                   \* the records allocated so far
    ti_pc,                      \* per thread: its position in H5TS_thread_id / H5TS__tinfo_destroy
    ti_loc,                     \* per thread: the locals new_id and tinfo_node
    ti_life,                    \* per thread: the threads that ran in its place and exited
    ti_got                      \* ledger: (thread, life, id) for every H5TS_thread_id that returned

\* library API calls at any depth (H5TS_api_lock / H5TS_api_unlock around user callbacks)
VARIABLES
    att_frames,                 \* per thread: its open API calls, outermost first:
                                \*   [dlftt: the value H5TS_api_lock stored, cb: a user callback runs]
    att_pc                      \* per thread: "idle" or "lock_wait" (inside H5TS_api_lock)

\* block free lists (H5FL_blk_head_t), the regular head of their size nodes, allocator failure
VARIABLES
    bk_mutex,            \* per block head: owner of head->mutex
    bk_onlist,           \* per block head: head->onlist
    bk_list_mem,         \* per block head: head->list_mem
    bk_allocated,        \* per block head: head->allocated
    bk_node,             \* per block head and size: the H5FL_blk_node_t of that size,
                         \*   [pq: it is in head->pq, onlist, allocated]
    bk_gc_mutex,         \* owner of H5FL_blk_gc_head.mutex
    bk_mem_freed,        \* H5FL_blk_gc_head.mem_freed
    nd_mutex,            \* regular head of H5FL_blk_node_t: owner of head->mutex
    nd_onlist,           \* regular head of H5FL_blk_node_t: head->onlist
    nd_allocated,        \* regular head of H5FL_blk_node_t: head->allocated
    rg_gc_mutex,         \* owner of H5FL_reg_gc_head.mutex
    rg_mem_freed,        \* H5FL_reg_gc_head.mem_freed
    rg_glb_lim,          \* H5FL_reg_glb_mem_lim as set by H5FL_set_free_list_limits
    bk_stk,              \* per thread: its call stack, outermost call first; a frame is
                         \*   [pc, h: the head, s: the size or the cursor of a walk, loc: a local]
    bk_ret,              \* per thread: what its last finished call returned
    bk_out,              \* per block head and size: blocks in the hands of callers
    bk_fail,             \* ledger: H5MM_malloc calls that have returned NULL
    bk_led               \* ledger, per thread: [h: the head of its running or last
                         \*   H5FL_blk_malloc, chg: what the steps of that call have added
                         \*   to head->allocated, gc and tries: the H5FL_garbage_coll and
                         \*   H5MM_malloc calls of its running or last H5FL__malloc]

\* factory free lists (H5FL_fac_head_t)
VARIABLES
    fac_mutex,           \* factory->mutex: owner
    fac_gc_mutex,        \* H5FL_fac_gc_head.mutex: owner
    fac_allocated,       \* factory->allocated
    fac_onlist,          \* factory->onlist
    fac_mem_freed,       \* H5FL_fac_gc_head.mem_freed
    fac_linked,          \* the factory is on the list of factories (not yet terminated)
    fac_out,             \* blocks in the hands of callers
    fac_pc,              \* per thread: position inside its factory call
    fac_loc,             \* per thread: a local (onlist, or the memory a pass has freed)
    fac_res,             \* per thread: what its last finished call returned
    fac_ret              \* per thread: where its H5FL__fac_gc_list returns to

VARIABLES
    c_dirty,             \* file->dirty
    bs_bytes             \* the bytes of the backing file

vars_att == <<att_frames, att_pc>>

vars_bs == <<c_dirty, bs_bytes>>

vars_blk == <<bk_mutex, bk_onlist, bk_list_mem, bk_allocated, bk_node, bk_gc_mutex,
              bk_mem_freed, nd_mutex, nd_onlist, nd_allocated, rg_gc_mutex, rg_mem_freed,
              rg_glb_lim, bk_stk, bk_ret, bk_out, bk_fail, bk_led>>

vars_fac == <<fac_mutex, fac_gc_mutex, fac_allocated, fac_onlist, fac_mem_freed, fac_linked,
              fac_out, fac_pc, fac_loc, fac_res, fac_ret>>

vars_rw == <<rw_lock_type, rw_write_thread, rw_rec_write_lock_count, rw_waiting_writers_count,
             rw_active_reader_threads, rw_rec_read_lock_count, rw_pc, rw_woken, rw_done, rw_log>>

vars_bar == <<bar_threshold, bar_entered, bar_pc, bar_woken, bar_cycle, bar_arrived,
              bar_mycycle, bar_returned>>

vars_ti == <<ti_next_thrd_id, ti_next_free, ti_mtx, ti_key, ti_id, ti_nodes, ti_pc, ti_loc,
             ti_life, ti_got>>

vars_api == <<build, api_mutex, lock_count, api_lock, attempt_lock_count, pos, pc,
              arg_n, loop_u, acquired, prev_count, saved_dlftt, cb_entry, sum_n,
              other_holds, rel_sum_n, before>>

vars_dl == <<dl_mtx, dl_pc, dl_ops, dl_pos>>

vars_fl == <<reg_lst_mem_lim, reg_glb_mem_lim, fl_allocated, fl_onlist, fl_mutex, gc_mutex,
             mem_freed, fl_out, fl_pc, fl_h, fl_g, fl_loc, fl_ret, seq_K, seq_h, seq_alloc,
             seq_free, gc_passes, fl_ran>>

vars_core == <<c_eof, c_increment, c_page_size, c_dirty_list, c_written, c_pages, c_clamped,
               c_tracking, c_mem, c_shadow, c_rd, c_backing_store, c_file_opened,
                   c_write_tracking, c_flags>>

\* the fields of the POSIX file the core driver's buffer operations never touch
vars_pc == <<pc_eoa, pc_pos, pc_op, pc_flen, pc_off, pc_pread>>

vars == <<vars_api, dlftt, vars_dl, vars_fl, vars_core, vars_bs, vars_pc, pc_last, vars_rw, vars_bar, vars_ti, vars_att, vars_blk, vars_fac>>

\* what the actions of one subsystem leave alone
ApiFrame == UNCHANGED <<vars_dl, vars_fl, vars_core, vars_bs, vars_pc, pc_last, vars_rw, vars_bar, vars_ti, vars_att, vars_blk, vars_fac>>

DlFrame == UNCHANGED <<vars_api, vars_fl, vars_core, vars_bs, vars_pc, pc_last, vars_rw, vars_bar, vars_ti, vars_att, vars_blk, vars_fac>>

FlFrame == UNCHANGED <<vars_api, dlftt, vars_dl, vars_core, vars_bs, vars_pc, pc_last, vars_rw, vars_bar, vars_ti, vars_att, vars_blk, vars_fac>>

\* what the block free-list actions leave alone
BlkFrame == UNCHANGED <<vars_api, dlftt, vars_dl, vars_fl, vars_core, vars_bs, vars_pc, pc_last, vars_rw, vars_bar, vars_ti, vars_att, vars_fac>>

\* what the factory actions leave alone
FacFrame == UNCHANGED <<vars_api, dlftt, vars_dl, vars_fl, vars_core, vars_bs, vars_pc, pc_last, vars_rw, vars_bar, vars_ti, vars_att, vars_blk>>

CoreFrame == UNCHANGED <<vars_api, dlftt, vars_dl, vars_fl, vars_rw, vars_bar, vars_ti, vars_att, vars_blk, vars_fac>>

\* HADDR_UNDEF
HADDR_UNDEF == -1

\* nobody uses the reader/writer lock
RwIdle ==
    /\ rw_lock_type = "UNUSED"
    /\ rw_write_thread = 0
    /\ rw_rec_write_lock_count = 0
    /\ rw_waiting_writers_count = 0
    /\ rw_active_reader_threads = 0
    /\ rw_rec_read_lock_count = <<>>
    /\ rw_pc = <<>>
    /\ rw_woken = {}
    /\ rw_done = <<>>
    /\ rw_log = FALSE

\* there is no barrier
BarIdle ==
    /\ bar_threshold = 0
    /\ bar_entered = 0
    /\ bar_pc = <<>>
    /\ bar_woken = {}
    /\ bar_cycle = 0
    /\ bar_arrived = 0
    /\ bar_mycycle = <<>>
    /\ bar_returned = <<>>

\* no thread has asked for its info record
TiIdle ==
    /\ ti_next_thrd_id = 0
    /\ ti_next_free = <<>>
    /\ ti_mtx = 0
    /\ ti_key = <<>>
    /\ ti_id = <<>>
    /\ ti_nodes = 0
    /\ ti_pc = <<>>
    /\ ti_loc = <<>>
    /\ ti_life = <<>>
    /\ ti_got = {}

\* no thread is inside a library API call
AttIdle ==
    /\ att_frames = <<>>
    /\ att_pc = <<>>

\* no block head is in use
BlkIdle ==
    /\ bk_mutex = <<>>
    /\ bk_onlist = <<>>
    /\ bk_list_mem = <<>>
    /\ bk_allocated = <<>>
    /\ bk_node = <<>>
    /\ bk_gc_mutex = NoThread
    /\ bk_mem_freed = 0
    /\ nd_mutex = NoThread
    /\ nd_onlist = 0
    /\ nd_allocated = 0
    /\ rg_gc_mutex = NoThread
    /\ rg_mem_freed = 0
    /\ rg_glb_lim = 0
    /\ bk_stk = <<>>
    /\ bk_ret = <<>>
    /\ bk_out = <<>>
    /\ bk_fail = 0
    /\ bk_led = <<>>

\* there is no factory
FacIdle ==
    /\ fac_mutex = NoThread
    /\ fac_gc_mutex = NoThread
    /\ fac_allocated = 0
    /\ fac_onlist = 0
    /\ fac_mem_freed = 0
    /\ fac_linked = FALSE
    /\ fac_out = 0
    /\ fac_pc = <<>>
    /\ fac_loc = <<>>
    /\ fac_res = <<>>
    /\ fac_ret = <<>>

\* the locks, the barrier, the registry and the API calls at rest
LocksIdle == RwIdle /\ BarIdle /\ TiIdle /\ AttIdle

\* these and the block and factory free lists at rest
SyncIdle == LocksIdle /\ BlkIdle /\ FacIdle

\* no backing file is followed
BsIdle ==
    /\ c_dirty = FALSE
    /\ bs_bytes = <<>>

\* no POSIX file is open
PcIdle ==
    /\ pc_eoa = 0
    /\ pc_pos = HADDR_UNDEF
    /\ pc_op = "UNKNOWN"
    /\ pc_flen = 0
    /\ pc_off = 0
    /\ pc_pread = FALSE
    /\ pc_last = [op |-> "none"]

(* ------------------------------------------------------------------ *)
(* Subsystems at rest                                                  *)
(* ------------------------------------------------------------------ *)

\* no thread uses the DLFTT-aware mutex
DlIdle ==
    /\ dl_mtx = [owner |-> NoThread, dlftt |-> 0]
    /\ dl_pc = [t \in Threads |-> "out"]
    /\ dl_ops = [t \in Threads |-> 0]
    /\ dl_pos = [t \in Threads |-> FALSE]

\* the free lists are empty and unused
FlIdle ==
    /\ reg_lst_mem_lim = 0
    /\ reg_glb_mem_lim = 0
    /\ fl_allocated = <<>>
    /\ fl_onlist = <<>>
    /\ fl_mutex = <<>>
    /\ gc_mutex = NoThread
    /\ mem_freed = 0
    /\ fl_out = <<>>
    /\ fl_pc = <<>>
    /\ fl_h = <<>>
    /\ fl_g = <<>>
    /\ fl_loc = <<>>
    /\ fl_ret = <<>>
    /\ seq_K = 0
    /\ seq_h = 0
    /\ seq_alloc = 0
    /\ seq_free = 0
    /\ gc_passes = 0
    /\ fl_ran = <<>>

\* no core file is open
CoreIdle ==
    /\ c_eof = 0
    /\ c_increment = 0
    /\ c_page_size = 0
    /\ c_dirty_list = <<>>
    /\ c_written = {}
    /\ c_pages = {}
    /\ c_clamped = FALSE
    /\ c_tracking = FALSE
    /\ c_mem = <<>>
    /\ c_shadow = <<>>
    /\ c_rd = <<>>
    /\ c_backing_store = FALSE
    /\ c_file_opened = FALSE
    /\ c_write_tracking = FALSE
    /\ c_flags = [rdwr |-> FALSE, creat |-> FALSE]
    /\ BsIdle
    /\ PcIdle

(* ------------------------------------------------------------------ *)
(* Recursive mutex (api_mutex)                                         *)
(* ------------------------------------------------------------------ *)

\* a recursive mutex can be taken by t when it is free or t owns it
MutexAvail(m, t) == m.owner = NoThread \/ m.owner = t

H5TS_mutex_lock(m, t) == [owner |-> t, count |-> m.count + 1]

H5TS_mutex_unlock(m, t) ==
    IF m.count = 1 THEN [owner |-> NoThread, count |-> 0]
    ELSE [owner |-> m.owner, count |-> m.count - 1]

\* faulty variant: the attempt takes the mutex whoever owns it
H5TS_mutex_trylock_AlwaysAcquires(m, t) ==
    [acquired |-> TRUE, mtx |-> H5TS_mutex_lock(m, t)]

\* pthread_mutex_trylock: 0 -> acquired, EBUSY -> not acquired, never waits
H5TS_mutex_trylock(m, t) ==
    IF MutexAvail(m, t) THEN [acquired |-> TRUE, mtx |-> H5TS_mutex_lock(m, t)]
    ELSE [acquired |-> FALSE, mtx |-> m]

(* ------------------------------------------------------------------ *)
(* Recursive rw-lock, writer side (api_lock)                           *)
(* ------------------------------------------------------------------ *)

RwWriteAvail(l, t) == l.write_thread = NoThread \/ l.write_thread = t

H5TS_rwlock_wrlock(l, t) ==
    [write_thread |-> t, rec_write_lock_count |-> l.rec_write_lock_count + 1]

H5TS_rwlock_trywrlock(l, t) ==
    IF RwWriteAvail(l, t) THEN [acquired |-> TRUE, lock |-> H5TS_rwlock_wrlock(l, t)]
    ELSE [acquired |-> FALSE, lock |-> l]

H5TS_rwlock_wrunlock(l, t) ==
    IF l.rec_write_lock_count = 1 THEN [write_thread |-> NoThread, rec_write_lock_count |-> 0]
    ELSE [write_thread |-> l.write_thread, rec_write_lock_count |-> l.rec_write_lock_count - 1]

(* ------------------------------------------------------------------ *)
(* API lock: views of the state                                        *)
(* ------------------------------------------------------------------ *)

\* does t own the API lock of the compiled variant
OwnsApiLock(t) ==
    IF build = "THREADSAFE" THEN api_mutex.owner = t ELSE api_lock.write_thread = t

\* how many times the API lock is recursively locked
ApiLockDepth ==
    IF build = "THREADSAFE" THEN api_mutex.count ELSE api_lock.rec_write_lock_count

\* the count the library keeps for t's holds on the API lock
HoldCount(t) ==
    IF build = "THREADSAFE" THEN (IF api_mutex.owner = t THEN lock_count ELSE 0)
    ELSE dlftt[t]

\* how many times t itself has the API lock locked
OwnDepth(t) == IF OwnsApiLock(t) THEN ApiLockDepth ELSE 0

NoBefore == [hold |-> 0, depth |-> 0]

\* the ledger entries of a thread whose holds have all been given back start afresh
Settle(s, o) == IF s + o = 0 THEN <<0, 0>> ELSE <<s, o>>

(* ------------------------------------------------------------------ *)
(* H5TS__api_mutex_acquire                                             *)
(* ------------------------------------------------------------------ *)

\* faulty variant: the attempt goes to the lock whatever the thread's DLFTT is
AcquireAttempt_IgnoresDlftt(t) ==
    IF build = "THREADSAFE"
    THEN LET r == H5TS_mutex_trylock(api_mutex, t) IN
         [acquired |-> r.acquired, mtx |-> r.mtx, lock |-> api_lock]
    ELSE LET r == H5TS_rwlock_trywrlock(api_lock, t) IN
         [acquired |-> r.acquired, mtx |-> api_mutex, lock |-> r.lock]

\* what the non-blocking attempt of H5TS__api_mutex_acquire reports for t, and the lock after it:
\* H5TS_mutex_trylock, or H5TS_rwlock_trywrlock when DLFTT is 0 and "acquired" otherwise
AcquireAttempt(t) ==
    IF build = "THREADSAFE"
    THEN LET r == H5TS_mutex_trylock(api_mutex, t) IN
         [acquired |-> r.acquired, mtx |-> r.mtx, lock |-> api_lock]
    ELSE IF dlftt[t] = 0
         THEN LET r == H5TS_rwlock_trywrlock(api_lock, t) IN
              [acquired |-> r.acquired, mtx |-> api_mutex, lock |-> r.lock]
         ELSE [acquired |-> TRUE, mtx |-> api_mutex, lock |-> api_lock]

\* application or callback code calls H5TSmutex_acquire(n, &acquired)
MutexAcquireCall(t, n) ==
    /\ pc[t] = "idle"
    /\ ApiFrame
    /\ pos[t] \in {"out", "cb"}
    /\ HoldCount(t) + n <= MaxHold
    /\ pc' = [pc EXCEPT ![t] = "acq_try"]
    /\ arg_n' = [arg_n EXCEPT ![t] = n]
    /\ acquired' = [acquired EXCEPT ![t] = "none"]
    /\ prev_count' = [prev_count EXCEPT ![t] = -1]
    /\ rel_sum_n' = [rel_sum_n EXCEPT ![t] = 0]
    /\ before' = [before EXCEPT ![t] = [hold |-> HoldCount(t), depth |-> OwnDepth(t)]]
    /\ UNCHANGED <<build, api_mutex, lock_count, api_lock, attempt_lock_count, dlftt, pos,
                   loop_u, saved_dlftt, cb_entry, sum_n, other_holds>>

\* the non-blocking attempt
MutexAcquireTry(t) ==
    /\ pc[t] = "acq_try"
    /\ ApiFrame
    /\ LET r == AcquireAttempt(t) IN
       /\ api_mutex' = r.mtx
       /\ api_lock' = r.lock
       /\ acquired' = [acquired EXCEPT ![t] = IF r.acquired THEN "true" ELSE "false"]
       /\ pc' = [pc EXCEPT ![t] = IF ~r.acquired THEN "idle"
                                  ELSE IF build = "THREADSAFE" /\ arg_n[t] - 1 > 0
                                       THEN "acq_loop" ELSE "acq_count"]
       /\ arg_n' = [arg_n EXCEPT ![t] = IF r.acquired THEN arg_n[t] ELSE 0]
       /\ before' = [before EXCEPT ![t] = IF r.acquired THEN before[t] ELSE NoBefore]
    /\ UNCHANGED <<build, lock_count, attempt_lock_count, dlftt, pos, loop_u, prev_count,
                   saved_dlftt, cb_entry, sum_n, other_holds, rel_sum_n>>

\* faulty variant: the loop takes no further hold
MutexAcquireLoop_SkipsLock(t) ==
    /\ pc[t] = "acq_loop"
    /\ ApiFrame
    /\ pc' = [pc EXCEPT ![t] = "acq_count"]
    /\ UNCHANGED <<build, api_mutex, lock_count, api_lock, attempt_lock_count, dlftt, pos,
                   arg_n, loop_u, acquired, prev_count, saved_dlftt, cb_entry, sum_n,
                   other_holds, rel_sum_n, before>>

\* for (u = 0; u < lock_count - 1; u++) H5TS_mutex_lock(&api_mutex)
MutexAcquireLoop(t) ==
    /\ pc[t] = "acq_loop"
    /\ ApiFrame
    /\ MutexAvail(api_mutex, t)
    /\ api_mutex' = H5TS_mutex_lock(api_mutex, t)
    /\ IF loop_u[t] + 1 < arg_n[t] - 1
       THEN /\ loop_u' = [loop_u EXCEPT ![t] = loop_u[t] + 1]
            /\ UNCHANGED pc
       ELSE /\ loop_u' = [loop_u EXCEPT ![t] = 0]
            /\ pc' = [pc EXCEPT ![t] = "acq_count"]
    /\ UNCHANGED <<build, lock_count, api_lock, attempt_lock_count, dlftt, pos, arg_n,
                   acquired, prev_count, saved_dlftt, cb_entry, sum_n, other_holds,
                   rel_sum_n, before>>

\* faulty variant: the count grows by one whatever n is
MutexAcquireCount_AddsOne(t) ==
    /\ pc[t] = "acq_count"
    /\ ApiFrame
    /\ IF build = "THREADSAFE"
       THEN /\ lock_count' = lock_count + 1
            /\ UNCHANGED dlftt
       ELSE /\ dlftt' = [dlftt EXCEPT ![t] = dlftt[t] + 1]
            /\ UNCHANGED lock_count
    /\ sum_n' = [sum_n EXCEPT ![t] = sum_n[t] + arg_n[t]]
    /\ pc' = [pc EXCEPT ![t] = "idle"]
    /\ arg_n' = [arg_n EXCEPT ![t] = 0]
    /\ before' = [before EXCEPT ![t] = NoBefore]
    /\ UNCHANGED <<build, api_mutex, api_lock, attempt_lock_count, pos, loop_u, acquired,
                   prev_count, saved_dlftt, cb_entry, other_holds, rel_sum_n>>

\* lock_count += n (THREADSAFE) / H5TS__set_dlftt(dlftt + n) (CONCURRENCY)
MutexAcquireCount(t) ==
    /\ pc[t] = "acq_count"
    /\ ApiFrame
    /\ IF build = "THREADSAFE"
       THEN /\ lock_count' = lock_count + arg_n[t]
            /\ UNCHANGED dlftt
       ELSE /\ dlftt' = [dlftt EXCEPT ![t] = dlftt[t] + arg_n[t]]
            /\ UNCHANGED lock_count
    /\ sum_n' = [sum_n EXCEPT ![t] = sum_n[t] + arg_n[t]]
    /\ pc' = [pc EXCEPT ![t] = "idle"]
    /\ arg_n' = [arg_n EXCEPT ![t] = 0]
    /\ before' = [before EXCEPT ![t] = NoBefore]
    /\ UNCHANGED <<build, api_mutex, api_lock, attempt_lock_count, pos, loop_u, acquired,
                   prev_count, saved_dlftt, cb_entry, other_holds, rel_sum_n>>

(* ------------------------------------------------------------------ *)
(* H5TS__api_mutex_release                                             *)
(* ------------------------------------------------------------------ *)

\* *lock_count = count; count = 0  (the caller releases a lock it holds)
MutexReleaseRead(t) ==
    /\ pc[t] = "idle"
    /\ ApiFrame
    /\ pos[t] \in {"out", "cb"}
    /\ OwnsApiLock(t)
    /\ IF build = "THREADSAFE"
       THEN /\ prev_count' = [prev_count EXCEPT ![t] = lock_count]
            /\ lock_count' = 0
            /\ pc' = [pc EXCEPT ![t] = IF lock_count > 0 THEN "rel_loop" ELSE "idle"]
            /\ UNCHANGED dlftt
       ELSE /\ prev_count' = [prev_count EXCEPT ![t] = dlftt[t]]
            /\ dlftt' = [dlftt EXCEPT ![t] = 0]
            /\ pc' = [pc EXCEPT ![t] = "rel_loop"]
            /\ UNCHANGED lock_count
    /\ acquired' = [acquired EXCEPT ![t] = "none"]
    /\ rel_sum_n' = [rel_sum_n EXCEPT ![t] = sum_n[t]]
    /\ sum_n' = [sum_n EXCEPT ![t] = 0]
    /\ other_holds' = [other_holds EXCEPT ![t] = 0]
    /\ UNCHANGED <<build, api_mutex, api_lock, attempt_lock_count, pos, arg_n, loop_u,
                   saved_dlftt, cb_entry, before>>

\* faulty variant: the mutex is unlocked once whatever the count was
MutexReleaseLoop_UnlocksOnce(t) ==
    /\ pc[t] = "rel_loop"
    /\ ApiFrame
    /\ IF build = "THREADSAFE"
       THEN /\ api_mutex' = H5TS_mutex_unlock(api_mutex, t)
            /\ UNCHANGED api_lock
       ELSE /\ api_lock' = H5TS_rwlock_wrunlock(api_lock, t)
            /\ UNCHANGED api_mutex
    /\ pc' = [pc EXCEPT ![t] = "idle"]
    /\ UNCHANGED <<build, lock_count, attempt_lock_count, dlftt, pos, arg_n, loop_u,
                   acquired, prev_count, saved_dlftt, cb_entry, sum_n, other_holds,
                   rel_sum_n, before>>

\* for (u = 0; u < *lock_count; u++) H5TS_mutex_unlock / one H5TS_rwlock_wrunlock
MutexReleaseLoop(t) ==
    /\ pc[t] = "rel_loop"
    /\ ApiFrame
    /\ IF build = "THREADSAFE"
       THEN /\ api_mutex' = H5TS_mutex_unlock(api_mutex, t)
            /\ IF loop_u[t] + 1 < prev_count[t]
               THEN /\ loop_u' = [loop_u EXCEPT ![t] = loop_u[t] + 1]
                    /\ UNCHANGED pc
               ELSE /\ loop_u' = [loop_u EXCEPT ![t] = 0]
                    /\ pc' = [pc EXCEPT ![t] = "idle"]
            /\ UNCHANGED api_lock
       ELSE /\ api_lock' = H5TS_rwlock_wrunlock(api_lock, t)
            /\ pc' = [pc EXCEPT ![t] = "idle"]
            /\ UNCHANGED <<api_mutex, loop_u>>
    /\ UNCHANGED <<build, lock_count, attempt_lock_count, dlftt, pos, arg_n, acquired,
                   prev_count, saved_dlftt, cb_entry, sum_n, other_holds, rel_sum_n, before>>

(* ------------------------------------------------------------------ *)
(* H5TS_api_lock / H5TS_api_unlock                                     *)
(* ------------------------------------------------------------------ *)

\* H5TS_atomic_fetch_add_uint(&attempt_lock_count, 1), before any locking
ApiLockAttempt(t) ==
    /\ pc[t] = "idle"
    /\ ApiFrame
    /\ pos[t] = "out"
    /\ attempt_lock_count < MaxAttempts
    /\ build = "THREADSAFE" => HoldCount(t) + 1 <= MaxHold
    /\ attempt_lock_count' = attempt_lock_count + 1
    /\ pc' = [pc EXCEPT ![t] = "lock_wait"]
    /\ acquired' = [acquired EXCEPT ![t] = "none"]
    /\ prev_count' = [prev_count EXCEPT ![t] = -1]
    /\ rel_sum_n' = [rel_sum_n EXCEPT ![t] = 0]
    /\ UNCHANGED <<build, api_mutex, lock_count, api_lock, dlftt, pos, arg_n, loop_u,
                   saved_dlftt, cb_entry, sum_n, other_holds, before>>

\* the blocking part: H5TS_mutex_lock + lock_count++, or H5TS_rwlock_wrlock iff DLFTT = 0
ApiLockAcquire(t) ==
    /\ pc[t] = "lock_wait"
    /\ ApiFrame
    /\ IF build = "THREADSAFE"
       THEN /\ MutexAvail(api_mutex, t)
            /\ api_mutex' = H5TS_mutex_lock(api_mutex, t)
            /\ lock_count' = lock_count + 1
            /\ other_holds' = [other_holds EXCEPT ![t] = other_holds[t] + 1]
            /\ UNCHANGED api_lock
       ELSE /\ dlftt[t] = 0 => RwWriteAvail(api_lock, t)
            /\ api_lock' = IF dlftt[t] = 0 THEN H5TS_rwlock_wrlock(api_lock, t) ELSE api_lock
            /\ UNCHANGED <<api_mutex, lock_count, other_holds>>
    /\ saved_dlftt' = [saved_dlftt EXCEPT ![t] = dlftt[t]]
    /\ pos' = [pos EXCEPT ![t] = "api"]
    /\ pc' = [pc EXCEPT ![t] = "idle"]
    /\ UNCHANGED <<build, attempt_lock_count, dlftt, arg_n, loop_u, acquired, prev_count,
                   cb_entry, sum_n, rel_sum_n, before>>

\* lock_count--, H5TS_mutex_unlock / H5TS_rwlock_wrunlock when api_lock took the lock
H5TS_api_unlock(t) ==
    /\ pc[t] = "idle"
    /\ ApiFrame
    /\ pos[t] = "api"
    /\ IF build = "THREADSAFE"
       THEN /\ api_mutex' = H5TS_mutex_unlock(api_mutex, t)
            /\ lock_count' = lock_count - 1
            /\ LET l == Settle(sum_n[t], other_holds[t] - 1) IN
               /\ sum_n' = [sum_n EXCEPT ![t] = l[1]]
               /\ other_holds' = [other_holds EXCEPT ![t] = l[2]]
            /\ UNCHANGED api_lock
       ELSE /\ api_lock' = IF saved_dlftt[t] = 0
                           THEN H5TS_rwlock_wrunlock(api_lock, t) ELSE api_lock
            /\ UNCHANGED <<api_mutex, lock_count, sum_n, other_holds>>
    /\ pos' = [pos EXCEPT ![t] = "out"]
    /\ saved_dlftt' = [saved_dlftt EXCEPT ![t] = 0]
    /\ UNCHANGED <<build, attempt_lock_count, dlftt, pc, arg_n, loop_u, acquired,
                   prev_count, cb_entry, rel_sum_n, before>>

(* ------------------------------------------------------------------ *)
(* User callbacks                                                      *)
(* ------------------------------------------------------------------ *)

H5TS__inc_dlftt(d) == d + 1

\* stands for the unsigned value 0u - 1 that "dlftt--" leaves when dlftt is 0
DlfttWrapped == 2147483647

H5TS__dec_dlftt(d) == IF d = 0 THEN DlfttWrapped ELSE d - 1

\* the library is about to run a user callback
H5TS_user_cb_prepare(t) ==
    /\ pc[t] = "idle"
    /\ ApiFrame
    /\ pos[t] = "api"
    /\ build = "CONCURRENCY" => dlftt[t] + 1 <= MaxHold
    /\ IF build = "CONCURRENCY"
       THEN /\ dlftt' = [dlftt EXCEPT ![t] = H5TS__inc_dlftt(dlftt[t])]
            /\ other_holds' = [other_holds EXCEPT ![t] = other_holds[t] + 1]
            /\ cb_entry' = [cb_entry EXCEPT ![t] = H5TS__inc_dlftt(dlftt[t])]
       ELSE /\ cb_entry' = [cb_entry EXCEPT ![t] = lock_count]
            /\ UNCHANGED <<dlftt, other_holds>>
    /\ pos' = [pos EXCEPT ![t] = "cb"]
    /\ UNCHANGED <<build, api_mutex, lock_count, api_lock, attempt_lock_count, pc, arg_n,
                   loop_u, acquired, prev_count, saved_dlftt, sum_n, rel_sum_n, before>>

\* the user callback has returned, leaving the thread's holds as it found them
H5TS_user_cb_restore(t) ==
    /\ pc[t] = "idle"
    /\ ApiFrame
    /\ pos[t] = "cb"
    /\ OwnsApiLock(t)
    /\ HoldCount(t) = cb_entry[t]
    /\ IF build = "CONCURRENCY"
       THEN /\ dlftt' = [dlftt EXCEPT ![t] = H5TS__dec_dlftt(dlftt[t])]
            /\ LET l == Settle(sum_n[t], other_holds[t] - 1) IN
               /\ sum_n' = [sum_n EXCEPT ![t] = l[1]]
               /\ other_holds' = [other_holds EXCEPT ![t] = l[2]]
       ELSE UNCHANGED <<dlftt, sum_n, other_holds>>
    /\ pos' = [pos EXCEPT ![t] = "api"]
    /\ cb_entry' = [cb_entry EXCEPT ![t] = 0]
    /\ acquired' = [acquired EXCEPT ![t] = "none"]
    /\ prev_count' = [prev_count EXCEPT ![t] = -1]
    /\ rel_sum_n' = [rel_sum_n EXCEPT ![t] = 0]
    /\ UNCHANGED <<build, api_mutex, lock_count, api_lock, attempt_lock_count, pc, arg_n,
                   loop_u, saved_dlftt, before>>

(* ------------------------------------------------------------------ *)
(* Specification of the API lock                                       *)
(* ------------------------------------------------------------------ *)

\* the state H5TS__init leaves: lock free, lock_count = 0, attempt_lock_count = 0
H5TS__init ==
    /\ build \in {"THREADSAFE", "CONCURRENCY"}
    /\ api_mutex = [owner |-> NoThread, count |-> 0]
    /\ lock_count = 0
    /\ api_lock = [write_thread |-> NoThread, rec_write_lock_count |-> 0]
    /\ attempt_lock_count = 0
    /\ dlftt = [t \in Threads |-> 0]
    /\ pos = [t \in Threads |-> "out"]
    /\ pc = [t \in Threads |-> "idle"]
    /\ arg_n = [t \in Threads |-> 0]
    /\ loop_u = [t \in Threads |-> 0]
    /\ acquired = [t \in Threads |-> "none"]
    /\ prev_count = [t \in Threads |-> -1]
    /\ saved_dlftt = [t \in Threads |-> 0]
    /\ cb_entry = [t \in Threads |-> 0]
    /\ sum_n = [t \in Threads |-> 0]
    /\ other_holds = [t \in Threads |-> 0]
    /\ rel_sum_n = [t \in Threads |-> 0]
    /\ before = [t \in Threads |-> NoBefore]

InitApi == H5TS__init /\ SyncIdle /\ DlIdle /\ FlIdle /\ CoreIdle

NextApi ==
    \E t \in Threads :
        \/ \E n \in 1..MaxLockCount : MutexAcquireCall(t, n)
        \/ MutexAcquireTry(t)
        \/ MutexAcquireLoop(t)
        \/ MutexAcquireCount(t)
        \/ MutexReleaseRead(t)
        \/ MutexReleaseLoop(t)
        \/ ApiLockAttempt(t)
        \/ ApiLockAcquire(t)
        \/ H5TS_api_unlock(t)
        \/ H5TS_user_cb_prepare(t)
        \/ H5TS_user_cb_restore(t)

SpecApi == InitApi /\ [][NextApi]_vars

(* ------------------------------------------------------------------ *)
(* Properties of the API lock                                          *)
(* ------------------------------------------------------------------ *)

\* by the ledger of calls: t has taken the API lock and not given it back
Holding(t) == pos[t] = "api" \/ sum_n[t] + other_holds[t] > 0

\* by the ledger of calls: t holds the lock through a successful mutex_acquire
HeldByAcquire(t) == sum_n[t] > 0 /\ sum_n[t] + other_holds[t] > 0

C2_AsStated ==
    \A t \in Threads : prev_count[t] >= 0 => prev_count[t] = rel_sum_n[t]

\* C2 (amended): the count mutex_release reports is the thread's whole recursion count on the
\* API lock: the sum of n of its unmatched successful mutex_acquire calls plus the holds it has
\* through H5TS_api_lock (THREADSAFE) or H5TS_user_cb_prepare (CONCURRENCY); it is the sum of
\* n alone for a thread that holds the lock only through mutex_acquire.
C2_PrevCount ==
    [][\A t \in Threads :
         (prev_count[t] = -1 /\ prev_count'[t] >= 0)
             => prev_count'[t] = sum_n[t] + other_holds[t]]_vars

\* a release inside a callback, after one acquire(1), reports 2
C2_Witness ==
    \E t \in Threads :
        pc[t] = "idle" /\ pos[t] = "cb" /\ prev_count[t] = 2 /\ rel_sum_n[t] = 1

LockCallsSkipped ==
    /\ [](\A t \in Threads :
            (build = "CONCURRENCY" /\ pc[t] = "lock_wait" /\ dlftt[t] > 0)
                => ENABLED ApiLockAcquire(t))
    /\ [][build = "CONCURRENCY" =>
            \A t \in Threads :
                /\ (pc[t] = "lock_wait" /\ pc'[t] = "idle" /\ dlftt[t] > 0)
                      => (api_lock' = api_lock /\ dlftt' = dlftt)
                /\ (pos[t] = "api" /\ pos'[t] = "out" /\ dlftt[t] > 0)
                      => (api_lock' = api_lock /\ dlftt' = dlftt)
                /\ (pc[t] = "acq_try" /\ pc'[t] # "acq_try" /\ dlftt[t] > 0)
                      => (api_lock' = api_lock /\ acquired'[t] = "true")]_vars

C23_WitnessRelease ==
    \E t \in Threads :
        /\ build = "CONCURRENCY" /\ pos[t] = "cb" /\ pc[t] = "idle"
        /\ prev_count[t] >= 1 /\ dlftt[t] = 0
        /\ api_lock.write_thread = NoThread

(* ------------------------------------------------------------------ *)
(* User callbacks that use the API lock as they like (rw-lock variant) *)
(* ------------------------------------------------------------------ *)

\* no thread's DLFTT has been decremented at zero
NoWrap == \A t \in Threads : dlftt[t] # DlfttWrapped

\* H5TS_user_cb_restore when the user callback returns, whatever holds it leaves behind:
\* H5TS__dec_dlftt
UserCbReturn(t) ==
    /\ pc[t] = "idle"
    /\ ApiFrame
    /\ pos[t] = "cb"
    /\ dlftt' = [dlftt EXCEPT ![t] = H5TS__dec_dlftt(dlftt[t])]
    /\ LET l == Settle(sum_n[t], other_holds[t] - 1) IN
       /\ sum_n' = [sum_n EXCEPT ![t] = l[1]]
       /\ other_holds' = [other_holds EXCEPT ![t] = l[2]]
    /\ pos' = [pos EXCEPT ![t] = "api"]
    /\ acquired' = [acquired EXCEPT ![t] = "none"]
    /\ prev_count' = [prev_count EXCEPT ![t] = -1]
    /\ rel_sum_n' = [rel_sum_n EXCEPT ![t] = 0]
    /\ UNCHANGED <<build, api_mutex, lock_count, api_lock, attempt_lock_count, pc, arg_n,
                   loop_u, saved_dlftt, cb_entry, before>>

InitCb == InitApi /\ build = "CONCURRENCY"

\* the run ends when a DLFTT value has wrapped around
NextCb ==
    \E t \in Threads :
        \/ \E n \in 1..MaxLockCount : NoWrap /\ MutexAcquireCall(t, n)
        \/ NoWrap /\ MutexAcquireTry(t)
        \/ NoWrap /\ MutexAcquireCount(t)
        \/ NoWrap /\ MutexReleaseRead(t)
        \/ NoWrap /\ MutexReleaseLoop(t)
        \/ NoWrap /\ ApiLockAttempt(t)
        \/ NoWrap /\ ApiLockAcquire(t)
        \/ NoWrap /\ H5TS_api_unlock(t)
        \/ NoWrap /\ H5TS_user_cb_prepare(t)
        \/ NoWrap /\ UserCbReturn(t)

SpecCb == InitCb /\ [][NextCb]_vars

\* C24: user_cb_prepare raises the calling thread's DLFTT by exactly one and
\* user_cb_restore lowers it by exactly one; whatever API-lock calls the callback makes
\* between the two, DLFTT is back at its value from before the prepare when restore
\* returns, and it never goes below zero (never wraps around).
C24_PrepareRestore ==
    /\ [](\A t \in Threads : dlftt[t] >= 0 /\ dlftt[t] # DlfttWrapped)
    /\ [][\A t \in Threads :
            /\ (pos[t] = "api" /\ pos'[t] = "cb") => dlftt'[t] = dlftt[t] + 1
            /\ (pos[t] = "cb" /\ pos'[t] = "api")
                  => (dlftt'[t] = dlftt[t] - 1 /\ dlftt'[t] = cb_entry[t] - 1)]_vars

(* ------------------------------------------------------------------ *)
(* The DLFTT-aware mutex (H5TSdlftt_mutex.h)                           *)
(* ------------------------------------------------------------------ *)

\* cap on a thread's DLFTT value
MaxDlftt == 2

\* the state H5TS_dlftt_mutex_init leaves: mutex unlocked, dlftt = 0
H5TS_dlftt_mutex_init ==
    /\ dl_mtx = [owner |-> NoThread, dlftt |-> 0]
    /\ dl_pc = [t \in Threads |-> "out"]
    /\ dl_ops = [t \in Threads |-> 0]
    /\ dl_pos = [t \in Threads |-> FALSE]

\* H5TS_user_cb_prepare on thread t: H5TS__inc_dlftt
DlInc(t) ==
    /\ dlftt[t] < MaxDlftt
    /\ dl_pc[t] # "acq"
    /\ DlFrame
    /\ dlftt' = [dlftt EXCEPT ![t] = H5TS__inc_dlftt(dlftt[t])]
    /\ UNCHANGED <<dl_mtx, dl_pc, dl_ops, dl_pos>>

\* H5TS_user_cb_restore on thread t: H5TS__dec_dlftt
DlDec(t) ==
    /\ dlftt[t] > 0
    /\ dl_pc[t] # "acq"
    /\ DlFrame
    /\ dlftt' = [dlftt EXCEPT ![t] = H5TS__dec_dlftt(dlftt[t])]
    /\ dl_pos' = [dl_pos EXCEPT ![t] = dl_pos[t] /\ dlftt'[t] > 0]
    /\ UNCHANGED <<dl_mtx, dl_pc, dl_ops>>

\* H5TS_dlftt_mutex_acquire, first statement: H5TS__get_dlftt(&mtx->dlftt)
DlAcquireSnapshot(t) ==
    /\ dl_pc[t] = "out"
    /\ DlFrame
    /\ dl_mtx' = [dl_mtx EXCEPT !.dlftt = dlftt[t]]
    /\ dl_pc' = [dl_pc EXCEPT ![t] = "acq"]
    /\ dl_ops' = [dl_ops EXCEPT ![t] = 0]
    /\ dl_pos' = [dl_pos EXCEPT ![t] = dlftt[t] > 0]
    /\ UNCHANGED dlftt

\* H5TS_dlftt_mutex_acquire, second statement: if (0 == mtx->dlftt) H5TS_mutex_lock(&mtx->mtx)
DlAcquireLock(t) ==
    /\ dl_pc[t] = "acq"
    /\ DlFrame
    /\ IF dl_mtx.dlftt = 0
       THEN /\ dl_mtx.owner = NoThread
            /\ dl_mtx' = [dl_mtx EXCEPT !.owner = t]
            /\ dl_ops' = [dl_ops EXCEPT ![t] = dl_ops[t] + 1]
       ELSE UNCHANGED <<dl_mtx, dl_ops>>
    /\ dl_pc' = [dl_pc EXCEPT ![t] = "in"]
    /\ UNCHANGED <<dlftt, dl_pos>>

\* H5TS_dlftt_mutex_release: if (0 == mtx->dlftt) H5TS_mutex_unlock(&mtx->mtx).
\* Unlocking a plain mutex the caller does not own is undefined: it unlocks it or fails.
H5TS_dlftt_mutex_release(t) ==
    /\ dl_pc[t] = "in"
    /\ DlFrame
    /\ IF dl_mtx.dlftt = 0
       THEN /\ dl_ops' = [dl_ops EXCEPT ![t] = dl_ops[t] + 1]
            /\ IF dl_mtx.owner = t
               THEN dl_mtx' = [dl_mtx EXCEPT !.owner = NoThread]
               ELSE \E o \in {dl_mtx.owner, NoThread} : dl_mtx' = [dl_mtx EXCEPT !.owner = o]
       ELSE UNCHANGED <<dl_mtx, dl_ops>>
    /\ dl_pc' = [dl_pc EXCEPT ![t] = "out"]
    /\ UNCHANGED <<dlftt, dl_pos>>

InitDl == H5TS__init /\ SyncIdle /\ build = "CONCURRENCY" /\ H5TS_dlftt_mutex_init /\ FlIdle /\ CoreIdle

NextDl ==
    \E t \in Threads :
        \/ DlInc(t)
        \/ DlDec(t)
        \/ DlAcquireSnapshot(t)
        \/ DlAcquireLock(t)
        \/ H5TS_dlftt_mutex_release(t)

SpecDl == InitDl /\ [][NextDl]_vars

\* C5: while a thread's DLFTT is greater than zero, each of its dlftt_mutex_acquire /
\* dlftt_mutex_release pairs makes no H5TS_mutex_lock or H5TS_mutex_unlock call on the
\* mutex, whatever other threads do with the same mutex in between.
C5_NoOpWhileDisabled ==
    \A t \in Threads : dl_pos[t] => dl_ops[t] = 0

\* C20: in every dlftt_mutex_acquire / dlftt_mutex_release pair of a thread the release calls
\* H5TS_mutex_unlock if and only if the acquire called H5TS_mutex_lock, whatever happens to
\* the thread's DLFTT in between and whatever other threads do with the same mutex: a
\* completed pair has made no mutex call or two.
C20_ReleaseMirrorsAcquire ==
    \A t \in Threads : dl_pc[t] = "out" => dl_ops[t] # 1

\* the threads between H5TS_dlftt_mutex_acquire and H5TS_dlftt_mutex_release on the mutex
InSection == {t \in Threads : dl_pc[t] = "in"}

\* C22: no two threads are at the same time between dlftt_mutex_acquire and
\* dlftt_mutex_release on the mutex of one free-list head, so that the updates of the head
\* made in these sections are serialised by the head's mutex.
C22_OneInSection ==
    Cardinality(InSection) <= 1

(* ------------------------------------------------------------------ *)
(* Regular free lists: H5FL_reg_malloc, H5FL_reg_free, H5FL__reg_gc    *)
(* ------------------------------------------------------------------ *)
(* The threads of this part have DLFTT = 0, so H5TS_dlftt_mutex_acquire *)
(* locks and H5TS_dlftt_mutex_release unlocks the head's mutex.  The    *)
(* statements between an acquire and its release form one step.        *)

\* number of free-list heads; head h manages blocks of size h
NumHeads == 2

\* cap on the blocks a head has allocated
MaxBlocks == 2

\* largest list and global limit tried
MaxLimit == 2

\* largest number of blocks of a scripted run
MaxK == 4

Heads == 1..NumHeads

\* head->size
HeadSize(h) == h

\* "mem_freed > limit" on the unsigned gauge: a gauge driven below zero has wrapped around
GaugeExceeds(g, lim) == g < 0 \/ g > lim

\* blocks in the hands of callers, counting the ones a running malloc may still add
Outstanding ==
    LET RECURSIVE Sum(_)
        Sum(h) == IF h = 0 THEN 0 ELSE fl_out[h] + Sum(h - 1)
    IN Sum(NumHeads) + Cardinality({u \in Threads : fl_pc[u] \in {"m_cs", "m_lock2", "m_cs2", "m_gauge"}})

\* a run without script, or the step of the script that is due
MayMalloc(t, h) ==
    IF seq_K = 0 THEN Outstanding < MaxBlocks
    ELSE t = 1 /\ h = seq_h /\ seq_alloc < seq_K

MayFree(t, h) ==
    /\ fl_out[h] > 0
    /\ seq_K # 0 => (t = 1 /\ h = seq_h /\ seq_alloc = seq_K)

\* H5FL_reg_malloc is called and acquires head->mutex
RegMallocCall(t, h) ==
    /\ fl_pc[t] = "idle"
    /\ MayMalloc(t, h)
    /\ fl_mutex[h] = NoThread
    /\ FlFrame
    /\ fl_mutex' = [fl_mutex EXCEPT ![h] = t]
    /\ fl_pc' = [fl_pc EXCEPT ![t] = "m_cs"]
    /\ fl_h' = [fl_h EXCEPT ![t] = h]
    /\ UNCHANGED <<fl_ran, reg_lst_mem_lim, reg_glb_mem_lim, fl_allocated, fl_onlist,
                   gc_mutex, mem_freed, fl_out, fl_g, fl_loc, fl_ret, seq_K, seq_h,
                   seq_alloc, seq_free, gc_passes>>

\* the later H5TS_dlftt_mutex_acquire(&head->mutex) calls of the free-list routines
FlAcquire(t) ==
    /\ fl_pc[t] \in {"m_lock2", "g_lock"}
    /\ FlFrame
    /\ LET h == IF fl_pc[t] = "g_lock" THEN fl_g[t] ELSE fl_h[t] IN
       /\ fl_mutex[h] = NoThread
       /\ fl_mutex' = [fl_mutex EXCEPT ![h] = t]
    /\ fl_pc' = [fl_pc EXCEPT ![t] = IF fl_pc[t] = "m_lock2" THEN "m_cs2" ELSE "g_cs"]
    /\ UNCHANGED <<fl_ran, reg_lst_mem_lim, reg_glb_mem_lim, fl_allocated, fl_onlist, gc_mutex,
                   mem_freed, fl_out, fl_h, fl_g, fl_loc, fl_ret, seq_K, seq_h, seq_alloc,
                   seq_free, gc_passes>>

\* H5FL_reg_malloc, first critical section: pop a block off the list if there is one
RegMallocPop(t) ==
    /\ fl_pc[t] = "m_cs"
    /\ FlFrame
    /\ LET h == fl_h[t] IN
       /\ IF fl_onlist[h] > 0
          THEN /\ fl_onlist' = [fl_onlist EXCEPT ![h] = fl_onlist[h] - 1]
               /\ fl_pc' = [fl_pc EXCEPT ![t] = "m_gauge"]
          ELSE /\ UNCHANGED fl_onlist
               /\ fl_pc' = [fl_pc EXCEPT ![t] = "m_lock2"]
       /\ fl_mutex' = [fl_mutex EXCEPT ![h] = NoThread]
    /\ UNCHANGED <<fl_ran, reg_lst_mem_lim, reg_glb_mem_lim, fl_allocated, gc_mutex, mem_freed,
                   fl_out, fl_h, fl_g, fl_loc, fl_ret, seq_K, seq_h, seq_alloc, seq_free,
                   gc_passes>>

\* H5FL_reg_malloc: H5TS_atomic_fetch_sub_size_t(&mem_freed, head->size); return the block
RegMallocGauge(t) ==
    /\ fl_pc[t] = "m_gauge"
    /\ FlFrame
    /\ mem_freed' = mem_freed - HeadSize(fl_h[t])
    /\ fl_out' = [fl_out EXCEPT ![fl_h[t]] = fl_out[fl_h[t]] + 1]
    /\ fl_pc' = [fl_pc EXCEPT ![t] = "idle"]
    /\ fl_h' = [fl_h EXCEPT ![t] = 0]
    /\ seq_alloc' = IF seq_K # 0 THEN seq_alloc + 1 ELSE seq_alloc
    /\ UNCHANGED <<fl_ran, reg_lst_mem_lim, reg_glb_mem_lim, fl_allocated, fl_onlist, fl_mutex,
                   gc_mutex, fl_g, fl_loc, fl_ret, seq_K, seq_h, seq_free, gc_passes>>

\* variant: the new block is handed out without being counted in head->allocated
RegMallocNew_NoCount(t) ==
    /\ fl_pc[t] = "m_cs2"
    /\ FlFrame
    /\ LET h == fl_h[t] IN
       /\ fl_mutex' = [fl_mutex EXCEPT ![h] = NoThread]
       /\ fl_out' = [fl_out EXCEPT ![h] = fl_out[h] + 1]
    /\ fl_pc' = [fl_pc EXCEPT ![t] = "idle"]
    /\ fl_h' = [fl_h EXCEPT ![t] = 0]
    /\ seq_alloc' = IF seq_K # 0 THEN seq_alloc + 1 ELSE seq_alloc
    /\ UNCHANGED <<fl_ran, reg_lst_mem_lim, reg_glb_mem_lim, fl_allocated, fl_onlist, gc_mutex,
                   mem_freed, fl_g, fl_loc, fl_ret, seq_K, seq_h, seq_free, gc_passes>>

\* H5FL_reg_malloc, second critical section after H5FL__malloc: head->allocated++
RegMallocNew(t) ==
    /\ fl_pc[t] = "m_cs2"
    /\ FlFrame
    /\ LET h == fl_h[t] IN
       /\ fl_allocated' = [fl_allocated EXCEPT ![h] = fl_allocated[h] + 1]
       /\ fl_mutex' = [fl_mutex EXCEPT ![h] = NoThread]
       /\ fl_out' = [fl_out EXCEPT ![h] = fl_out[h] + 1]
    /\ fl_pc' = [fl_pc EXCEPT ![t] = "idle"]
    /\ fl_h' = [fl_h EXCEPT ![t] = 0]
    /\ seq_alloc' = IF seq_K # 0 THEN seq_alloc + 1 ELSE seq_alloc
    /\ UNCHANGED <<fl_ran, reg_lst_mem_lim, reg_glb_mem_lim, fl_onlist, gc_mutex, mem_freed, fl_g,
                   fl_loc, fl_ret, seq_K, seq_h, seq_free, gc_passes>>

\* H5FL_reg_free(head, obj) is called with a block the caller got from this head and
\* acquires head->mutex
RegFreeCall(t, h) ==
    /\ fl_pc[t] = "idle"
    /\ MayFree(t, h)
    /\ fl_mutex[h] = NoThread
    /\ FlFrame
    /\ fl_mutex' = [fl_mutex EXCEPT ![h] = t]
    /\ fl_out' = [fl_out EXCEPT ![h] = fl_out[h] - 1]
    /\ fl_pc' = [fl_pc EXCEPT ![t] = "f_cs"]
    /\ fl_h' = [fl_h EXCEPT ![t] = h]
    /\ fl_ran' = [fl_ran EXCEPT ![t] = FALSE]
    /\ UNCHANGED <<reg_lst_mem_lim, reg_glb_mem_lim, fl_allocated, fl_onlist,
                   gc_mutex, mem_freed, fl_g, fl_loc, fl_ret, seq_K, seq_h, seq_alloc,
                   seq_free, gc_passes>>

\* H5FL_reg_free, critical section: link the block, onlist = ++head->onlist
RegFreePush(t) ==
    /\ fl_pc[t] = "f_cs"
    /\ FlFrame
    /\ LET h == fl_h[t] IN
       /\ fl_onlist' = [fl_onlist EXCEPT ![h] = fl_onlist[h] + 1]
       /\ fl_loc' = [fl_loc EXCEPT ![t] = fl_onlist[h] + 1]
       /\ fl_mutex' = [fl_mutex EXCEPT ![h] = NoThread]
    /\ fl_pc' = [fl_pc EXCEPT ![t] = "f_gauge"]
    /\ UNCHANGED <<fl_ran, reg_lst_mem_lim, reg_glb_mem_lim, fl_allocated, gc_mutex, mem_freed,
                   fl_out, fl_h, fl_g, fl_ret, seq_K, seq_h, seq_alloc, seq_free, gc_passes>>

\* H5FL_reg_free: mem_freed += head->size; if (onlist * head->size > reg_lst_mem_lim)
\* H5FL__reg_gc_list(head)
RegFreeGauge(t) ==
    /\ fl_pc[t] = "f_gauge"
    /\ FlFrame
    /\ mem_freed' = mem_freed + HeadSize(fl_h[t])
    /\ IF fl_loc[t] * HeadSize(fl_h[t]) > reg_lst_mem_lim
       THEN /\ fl_pc' = [fl_pc EXCEPT ![t] = "g_lock"]
            /\ fl_g' = [fl_g EXCEPT ![t] = fl_h[t]]
            /\ fl_ret' = [fl_ret EXCEPT ![t] = "f_chk2"]
            /\ fl_ran' = [fl_ran EXCEPT ![t] = TRUE]
       ELSE /\ fl_pc' = [fl_pc EXCEPT ![t] = "f_chk2"]
            /\ UNCHANGED <<fl_g, fl_ret, fl_ran>>
    /\ fl_loc' = [fl_loc EXCEPT ![t] = 0]
    /\ UNCHANGED <<reg_lst_mem_lim, reg_glb_mem_lim, fl_allocated, fl_onlist, fl_mutex,
                   gc_mutex, fl_out, fl_h, seq_K, seq_h, seq_alloc, seq_free, gc_passes>>

\* variant: the global check is the else branch of the list check
RegFreeGlobal_ElseIf(t) ==
    /\ fl_pc[t] = "f_chk2"
    /\ FlFrame
    /\ fl_pc' = [fl_pc EXCEPT ![t] = IF ~fl_ran[t] /\ GaugeExceeds(mem_freed, reg_glb_mem_lim)
                                     THEN "c_lock" ELSE "idle"]
    /\ fl_h' = [fl_h EXCEPT ![t] = 0]
    /\ seq_free' = IF seq_K # 0 /\ ~(~fl_ran[t] /\ GaugeExceeds(mem_freed, reg_glb_mem_lim))
                   THEN seq_free + 1 ELSE seq_free
    /\ UNCHANGED <<fl_ran, reg_lst_mem_lim, reg_glb_mem_lim, fl_allocated, fl_onlist, fl_mutex,
                   gc_mutex, mem_freed, fl_out, fl_g, fl_loc, fl_ret, seq_K, seq_h,
                   seq_alloc, gc_passes>>

\* H5FL_reg_free: if (mem_freed > reg_glb_mem_lim) H5FL__reg_gc(); return
RegFreeGlobal(t) ==
    /\ fl_pc[t] = "f_chk2"
    /\ FlFrame
    /\ fl_pc' = [fl_pc EXCEPT ![t] = IF GaugeExceeds(mem_freed, reg_glb_mem_lim)
                                     THEN "c_lock" ELSE "idle"]
    /\ fl_h' = [fl_h EXCEPT ![t] = 0]
    /\ seq_free' = IF seq_K # 0 /\ ~GaugeExceeds(mem_freed, reg_glb_mem_lim)
                   THEN seq_free + 1 ELSE seq_free
    /\ UNCHANGED <<fl_ran, reg_lst_mem_lim, reg_glb_mem_lim, fl_allocated, fl_onlist, fl_mutex,
                   gc_mutex, mem_freed, fl_out, fl_g, fl_loc, fl_ret, seq_K, seq_h,
                   seq_alloc, gc_passes>>

\* variant: the pass empties the list and leaves head->allocated as it was
RegGcListBody_KeepsAllocated(t) ==
    /\ fl_pc[t] = "g_cs"
    /\ FlFrame
    /\ LET h == fl_g[t] IN
       /\ fl_loc' = [fl_loc EXCEPT ![t] = fl_onlist[h]]
       /\ fl_onlist' = [fl_onlist EXCEPT ![h] = 0]
       /\ fl_mutex' = [fl_mutex EXCEPT ![h] = NoThread]
       /\ gc_passes' = IF seq_K # 0 /\ h = seq_h THEN gc_passes + 1 ELSE gc_passes
    /\ fl_pc' = [fl_pc EXCEPT ![t] = "g_gauge"]
    /\ UNCHANGED <<fl_ran, reg_lst_mem_lim, reg_glb_mem_lim, fl_allocated, gc_mutex, mem_freed,
                   fl_out, fl_h, fl_g, fl_ret, seq_K, seq_h, seq_alloc, seq_free>>

\* H5FL__reg_gc_list, critical section: free every block on the list,
\* head->allocated -= head->onlist; head->list = NULL; head->onlist = 0
RegGcListBody(t) ==
    /\ fl_pc[t] = "g_cs"
    /\ FlFrame
    /\ LET h == fl_g[t] IN
       /\ fl_loc' = [fl_loc EXCEPT ![t] = fl_onlist[h]]
       /\ fl_allocated' = [fl_allocated EXCEPT ![h] = fl_allocated[h] - fl_onlist[h]]
       /\ fl_onlist' = [fl_onlist EXCEPT ![h] = 0]
       /\ fl_mutex' = [fl_mutex EXCEPT ![h] = NoThread]
       /\ gc_passes' = IF seq_K # 0 /\ h = seq_h THEN gc_passes + 1 ELSE gc_passes
    /\ fl_pc' = [fl_pc EXCEPT ![t] = "g_gauge"]
    /\ UNCHANGED <<fl_ran, reg_lst_mem_lim, reg_glb_mem_lim, gc_mutex, mem_freed, fl_out, fl_h,
                   fl_g, fl_ret, seq_K, seq_h, seq_alloc, seq_free>>

\* variant: the gauge is lowered by one block size, whatever the pass collected
RegGcListGauge_OneBlock(t) ==
    /\ fl_pc[t] = "g_gauge"
    /\ FlFrame
    /\ mem_freed' = mem_freed - HeadSize(fl_g[t])
    /\ fl_loc' = [fl_loc EXCEPT ![t] = 0]
    /\ fl_pc' = [fl_pc EXCEPT ![t] = fl_ret[t]]
    /\ fl_ret' = [fl_ret EXCEPT ![t] = "idle"]
    /\ fl_g' = [fl_g EXCEPT ![t] = IF fl_ret[t] = "c_next" THEN fl_g[t] ELSE 0]
    /\ UNCHANGED <<fl_ran, reg_lst_mem_lim, reg_glb_mem_lim, fl_allocated, fl_onlist, fl_mutex,
                   gc_mutex, fl_out, fl_h, seq_K, seq_h, seq_alloc, seq_free, gc_passes>>

\* H5FL__reg_gc_list: mem_freed -= onlist * head->size; return to the caller
RegGcListGauge(t) ==
    /\ fl_pc[t] = "g_gauge"
    /\ FlFrame
    /\ mem_freed' = mem_freed - fl_loc[t] * HeadSize(fl_g[t])
    /\ fl_loc' = [fl_loc EXCEPT ![t] = 0]
    /\ fl_pc' = [fl_pc EXCEPT ![t] = fl_ret[t]]
    /\ fl_ret' = [fl_ret EXCEPT ![t] = "idle"]
    /\ fl_g' = [fl_g EXCEPT ![t] = IF fl_ret[t] = "c_next" THEN fl_g[t] ELSE 0]
    /\ UNCHANGED <<fl_ran, reg_lst_mem_lim, reg_glb_mem_lim, fl_allocated, fl_onlist, fl_mutex,
                   gc_mutex, fl_out, fl_h, seq_K, seq_h, seq_alloc, seq_free, gc_passes>>

\* H5FL_garbage_coll is called: H5FL__reg_gc() acquires H5FL_reg_gc_head.mutex
GarbageCollCall(t) ==
    /\ fl_pc[t] = "idle"
    /\ seq_K = 0
    /\ gc_mutex = NoThread
    /\ FlFrame
    /\ gc_mutex' = t
    /\ fl_pc' = [fl_pc EXCEPT ![t] = "c_next"]
    /\ UNCHANGED <<fl_ran, reg_lst_mem_lim, reg_glb_mem_lim, fl_allocated, fl_onlist, fl_mutex,
                   mem_freed, fl_out, fl_h, fl_g, fl_loc, fl_ret, seq_K, seq_h,
                   seq_alloc, seq_free, gc_passes>>

\* H5FL__reg_gc: H5TS_dlftt_mutex_acquire(&H5FL_reg_gc_head.mutex)
RegGcAcquire(t) ==
    /\ fl_pc[t] = "c_lock"
    /\ gc_mutex = NoThread
    /\ FlFrame
    /\ gc_mutex' = t
    /\ fl_g' = [fl_g EXCEPT ![t] = 0]
    /\ fl_pc' = [fl_pc EXCEPT ![t] = "c_next"]
    /\ UNCHANGED <<fl_ran, reg_lst_mem_lim, reg_glb_mem_lim, fl_allocated, fl_onlist, fl_mutex,
                   mem_freed, fl_out, fl_h, fl_loc, fl_ret, seq_K, seq_h, seq_alloc,
                   seq_free, gc_passes>>

\* H5FL__reg_gc: the walk over the list of heads, then the release of the list's mutex
RegGcNext(t) ==
    /\ fl_pc[t] = "c_next"
    /\ FlFrame
    /\ IF fl_g[t] < NumHeads
       THEN /\ fl_g' = [fl_g EXCEPT ![t] = fl_g[t] + 1]
            /\ fl_ret' = [fl_ret EXCEPT ![t] = "c_next"]
            /\ fl_pc' = [fl_pc EXCEPT ![t] = "g_lock"]
            /\ UNCHANGED <<gc_mutex, seq_free>>
       ELSE /\ gc_mutex' = NoThread
            /\ fl_g' = [fl_g EXCEPT ![t] = 0]
            /\ fl_pc' = [fl_pc EXCEPT ![t] = "idle"]
            /\ seq_free' = IF seq_K # 0 THEN seq_free + 1 ELSE seq_free
            /\ UNCHANGED fl_ret
    /\ UNCHANGED <<fl_ran, reg_lst_mem_lim, reg_glb_mem_lim, fl_allocated, fl_onlist, fl_mutex,
                   mem_freed, fl_out, fl_h, fl_loc, seq_K, seq_h, seq_alloc, gc_passes>>

(* ------------------------------------------------------------------ *)
(* Specifications of the free lists                                    *)
(* ------------------------------------------------------------------ *)

\* the heads after H5FL__reg_init: nothing allocated, nothing on the lists
H5FL__reg_init ==
    /\ fl_allocated = [h \in Heads |-> 0]
    /\ fl_onlist = [h \in Heads |-> 0]
    /\ fl_mutex = [h \in Heads |-> NoThread]
    /\ gc_mutex = NoThread
    /\ mem_freed = 0
    /\ fl_out = [h \in Heads |-> 0]
    /\ fl_pc = [t \in Threads |-> "idle"]
    /\ fl_h = [t \in Threads |-> 0]
    /\ fl_g = [t \in Threads |-> 0]
    /\ fl_loc = [t \in Threads |-> 0]
    /\ fl_ret = [t \in Threads |-> "idle"]
    /\ fl_ran = [t \in Threads |-> FALSE]
    /\ seq_alloc = 0
    /\ seq_free = 0
    /\ gc_passes = 0

\* the limits are set by H5FL_set_free_list_limits
InitFl ==
    /\ H5TS__init /\ SyncIdle /\ build = "CONCURRENCY" /\ DlIdle /\ CoreIdle
    /\ H5FL__reg_init
    /\ reg_lst_mem_lim = MaxLimit
    /\ reg_glb_mem_lim = MaxLimit + 1
    /\ seq_K = 0
    /\ seq_h = 0

NextFl ==
    \E t \in Threads :
        \/ \E h \in Heads : RegMallocCall(t, h)
        \/ \E h \in Heads : RegFreeCall(t, h)
        \/ GarbageCollCall(t)
        \/ FlAcquire(t)
        \/ RegMallocPop(t)
        \/ RegMallocGauge(t)
        \/ RegMallocNew(t)
        \/ RegFreePush(t)
        \/ RegFreeGauge(t)
        \/ RegFreeGlobal(t)
        \/ RegGcListBody(t)
        \/ RegGcListGauge(t)
        \/ RegGcAcquire(t)
        \/ RegGcNext(t)

SpecFl == InitFl /\ [][NextFl]_vars

\* one thread allocates K blocks on one head and then frees them
InitSeq ==
    /\ H5TS__init /\ SyncIdle /\ build = "CONCURRENCY" /\ DlIdle /\ CoreIdle
    /\ H5FL__reg_init
    /\ reg_lst_mem_lim \in 1..MaxLimit
    /\ reg_glb_mem_lim \in 1..MaxLimit + 1
    /\ seq_K \in 1..MaxK
    /\ seq_h \in Heads

NextSeq ==
    \E t \in Threads :
        \/ \E h \in Heads : RegMallocCall(t, h)
        \/ \E h \in Heads : RegFreeCall(t, h)
        \/ FlAcquire(t)
        \/ RegMallocPop(t)
        \/ RegMallocNew(t)
        \/ RegFreePush(t)
        \/ RegFreeGauge(t)
        \/ RegFreeGlobal(t)
        \/ RegGcListBody(t)
        \/ RegGcListGauge(t)
        \/ RegGcAcquire(t)
        \/ RegGcNext(t)

SpecSeq == InitSeq /\ [][NextSeq]_vars

\* no free-list routine is running
FlQuiescent == \A t \in Threads : fl_pc[t] = "idle"

OnListBytes(h) == IF h = 0 THEN 0 ELSE fl_onlist[h] * HeadSize(h)

RECURSIVE SumOnList(_)
SumOnList(h) == IF h = 0 THEN 0 ELSE OnListBytes(h) + SumOnList(h - 1)

SeqDone == seq_K # 0 /\ seq_alloc = seq_K /\ seq_free = seq_K /\ FlQuiescent

Min(a, b) == IF a <= b THEN a ELSE b

\* the number of blocks on the list at which a free starts a collection: the first count whose
\* bytes exceed the list limit or the global limit
SeqTrigger == Min(reg_lst_mem_lim \div HeadSize(seq_h), reg_glb_mem_lim \div HeadSize(seq_h)) + 1

\* C8 as stated: after allocating and then freeing K blocks of size S on a head with list limit
\* L, K*S <= L leaves depth K, allocated K and no pass; K*S > L leaves exactly one pass,
\* depth 0 and allocated 0.
C8_AsStated ==
    SeqDone =>
        IF seq_K * HeadSize(seq_h) <= reg_lst_mem_lim
        THEN /\ fl_onlist[seq_h] = seq_K
             /\ fl_allocated[seq_h] = seq_K
             /\ gc_passes = 0
        ELSE /\ gc_passes = 1
             /\ fl_onlist[seq_h] = 0
             /\ fl_allocated[seq_h] = 0

\* C8 amended: every free that brings the list to m = min(L div S, G div S) + 1 blocks (G the
\* global limit) starts a pass over the head, so after allocating and then freeing K blocks
\* the head has seen K div m passes and ends with depth = allocated = K mod m.
C8_PassPerOverflow ==
    SeqDone =>
        /\ gc_passes = seq_K \div SeqTrigger
        /\ fl_onlist[seq_h] = seq_K % SeqTrigger
        /\ fl_allocated[seq_h] = seq_K % SeqTrigger

\* a run with K*S > L that ends after one pass with a block left on the list
C8_Witness ==
    /\ SeqDone
    /\ seq_K * HeadSize(seq_h) > reg_lst_mem_lim
    /\ gc_passes = 1
    /\ fl_onlist[seq_h] = 1
    /\ fl_allocated[seq_h] = 1

\* C26, as stated: a free that has called H5FL__reg_gc_list on its head does not go on to
\* call H5FL__reg_gc; the class pass is run only by a free whose list check was false.
C26_AsStated ==
    \A t \in Threads : fl_pc[t] = "c_lock" => ~fl_ran[t]

\* C26: the two checks of a free are independent. The list pass is called exactly when
\* onlist * size exceeds the per-list cap, and it returns into the second check; the class
\* pass is called exactly when the global gauge, read at the second check, exceeds the
\* global cap, whether or not the list pass has just run.
C26_TwoIndependentChecks ==
    [][\A t \in Threads :
          /\ (fl_pc[t] = "f_gauge" /\ fl_pc'[t] # "f_gauge") =>
                IF fl_loc[t] * HeadSize(fl_h[t]) > reg_lst_mem_lim
                THEN fl_pc'[t] = "g_lock" /\ fl_g'[t] = fl_h[t] /\ fl_ret'[t] = "f_chk2"
                ELSE fl_pc'[t] = "f_chk2"
          /\ (fl_pc[t] = "f_chk2" /\ fl_pc'[t] # "f_chk2") =>
                IF GaugeExceeds(mem_freed, reg_glb_mem_lim)
                THEN fl_pc'[t] = "c_lock"
                ELSE fl_pc'[t] = "idle"]_vars

\* a free that has run the list pass on its head and now starts the class pass
C26_Witness ==
    \E t \in Threads : fl_pc[t] = "c_lock" /\ fl_ran[t]

(* ------------------------------------------------------------------ *)
(* Block free lists: H5FL_blk_malloc / H5FL_blk_free, their size      *)
(* nodes on a regular head, H5FL__malloc and H5FL_garbage_coll        *)
(* ------------------------------------------------------------------ *)

\* block heads, each initialised and linked on H5FL_blk_gc_head
NumBlkHeads == 1

BlkHeads == 1..NumBlkHeads

\* the block sizes callers ask for
MaxBlkSize == 1

BlkSizes == 1..MaxBlkSize

\* blocks that exist at a time, on the lists or in the hands of callers
MaxBlkLive == 2

\* H5MM_malloc calls that return NULL
MaxFail == 2

\* H5FL_blk_lst_mem_lim and H5FL_blk_glb_mem_lim as set by H5FL_set_free_list_limits
BlkLstLim == 1

BlkGlbLim == 2

\* sizeof(H5FL_blk_node_t) in the units of the regular limits
NodeSize == 1

\* H5FL_reg_lst_mem_lim
NodeLstLim == 1

\* the greatest H5FL_reg_glb_mem_lim
MaxNodeGlbLim == 1

\* the running call of a thread: the last frame of its stack
Top(t) == bk_stk[t][Len(bk_stk[t])]

\* the thread is inside a call, at position p of its innermost frame
At(t, p) == bk_stk[t] # <<>> /\ Top(t).pc = p

Frame(p, h, s, loc) == [pc |-> p, h |-> h, s |-> s, loc |-> loc]

\* the innermost frame moves to position p
Goto(t, p) == [bk_stk[t] EXCEPT ![Len(bk_stk[t])].pc = p]

\* the innermost frame moves to position p and calls f
Call(t, p, f) == Append(Goto(t, p), f)

\* the steps of a caller that touch nothing shared, taken as soon as its callee returns:
\*   H5FL_garbage_coll after H5FL__blk_gc calls H5FL__reg_gc, and after that returns
\*     (H5FL__fac_gc: no factory exists);
\*   H5FL__blk_gc goes on to the next head of its loop, or leaves the loop;
\*   H5FL_reg_free and H5FL_blk_free return after their class pass
RECURSIVE Resume(_)
Resume(st) ==
    IF st = <<>> THEN st
    ELSE LET top == Len(st)
             f == st[top]
         IN CASE f.pc = "gca_reg" ->
                    Append([st EXCEPT ![top].pc = "gca_end"], Frame("rgc_lock", 0, 0, 0))
              [] f.pc = "gc_walk" ->
                    IF f.h > NumBlkHeads
                    THEN [st EXCEPT ![top].pc = "gc_assert"]
                    ELSE Append([st EXCEPT ![top].h = f.h + 1], Frame("gl_lock", f.h, 1, 0))
              [] f.pc \in {"gca_end", "rf_done", "bf_done"} ->
                    Resume(SubSeq(st, 1, top - 1))
              [] OTHER -> st

\* the innermost frame returns
Return(t) == Resume(SubSeq(bk_stk[t], 1, Len(bk_stk[t]) - 1))

\* the block-head mutexes a thread holds
HeldHeads(t) == {h \in BlkHeads : bk_mutex[h] = t}

\* blocks that exist: head->allocated over the heads, and the blocks running mallocs are
\* about to add
BlkLive ==
    LET RECURSIVE Sum(_)
        Sum(h) == IF h = 0 THEN 0 ELSE bk_allocated[h] + Sum(h - 1)
    IN Sum(NumBlkHeads)
       + Cardinality({t \in Threads : bk_stk[t] # <<>>
                                      /\ bk_stk[t][1].pc \in {"bm_lock2", "bm_node"}})

\* a thread whose call failed on a lock makes no further call
MayCall(t) == bk_stk[t] = <<>> /\ bk_ret[t] # "lockfail"

\* H5FL_blk_malloc, first critical section (head->mutex taken and given back): a block of the
\* size is on its node's list and is unlinked, or temp = H5FL__malloc(...) is called
H5FL_blk_malloc(t, h, s) ==
    /\ MayCall(t)
    /\ bk_mutex[h] = NoThread
    /\ BlkFrame
    /\ IF bk_node[h][s].pq /\ bk_node[h][s].onlist > 0
       THEN /\ bk_node' = [bk_node EXCEPT ![h][s].onlist = @ - 1]
            /\ bk_onlist' = [bk_onlist EXCEPT ![h] = @ - 1]
            /\ bk_list_mem' = [bk_list_mem EXCEPT ![h] = @ - s]
            /\ bk_stk' = [bk_stk EXCEPT ![t] = <<Frame("bm_gauge", h, s, 0)>>]
       ELSE /\ BlkLive < MaxBlkLive
            /\ bk_stk' = [bk_stk EXCEPT ![t] = <<Frame("bm_lock2", h, s, 0),
                                                 Frame("hm_try", 0, 0, 0)>>]
            /\ UNCHANGED <<bk_node, bk_onlist, bk_list_mem>>
    /\ bk_led' = [bk_led EXCEPT ![t] = [h |-> h, chg |-> 0, gc |-> 0, tries |-> 0]]
    /\ bk_ret' = [bk_ret EXCEPT ![t] = "none"]
    /\ UNCHANGED <<rg_glb_lim, bk_mutex, bk_allocated, bk_gc_mutex, bk_mem_freed, nd_mutex, nd_onlist,
                   nd_allocated, rg_gc_mutex, rg_mem_freed, bk_out, bk_fail>>

\* H5FL_blk_malloc, block taken from the list: mem_freed -= size; return the block
BlkMallocGauge(t) ==
    /\ At(t, "bm_gauge")
    /\ BlkFrame
    /\ bk_mem_freed' = bk_mem_freed - Top(t).s
    /\ bk_out' = [bk_out EXCEPT ![Top(t).h][Top(t).s] = @ + 1]
    /\ bk_stk' = [bk_stk EXCEPT ![t] = Return(t)]
    /\ bk_ret' = [bk_ret EXCEPT ![t] = "ok"]
    /\ UNCHANGED <<rg_glb_lim, bk_mutex, bk_onlist, bk_list_mem, bk_allocated, bk_node, bk_gc_mutex,
                   nd_mutex, nd_onlist, nd_allocated, rg_gc_mutex, rg_mem_freed, bk_fail,
                   bk_led>>

\* H5FL_blk_malloc after H5FL__malloc: NULL is passed on; otherwise head->mutex is taken
\* again and, when the size has its node, node->allocated++, head->allocated++ and the
\* block is returned; when it has none, H5FL__blk_create_list calls
\* H5FL_CALLOC(H5FL_blk_node_t) with head->mutex held
BlkMallocLock2(t) ==
    /\ At(t, "bm_lock2")
    /\ BlkFrame
    /\ LET h == Top(t).h
           s == Top(t).s
       IN IF bk_ret[t] = "fail"
          THEN /\ bk_stk' = [bk_stk EXCEPT ![t] = Return(t)]
               /\ UNCHANGED <<bk_mutex, bk_allocated, bk_node, bk_out, bk_ret, bk_led>>
          ELSE /\ bk_mutex[h] = NoThread
               /\ IF bk_node[h][s].pq
                  THEN /\ bk_node' = [bk_node EXCEPT ![h][s].allocated = @ + 1]
                       /\ bk_allocated' = [bk_allocated EXCEPT ![h] = @ + 1]
                       /\ bk_out' = [bk_out EXCEPT ![h][s] = @ + 1]
                       /\ bk_stk' = [bk_stk EXCEPT ![t] = Return(t)]
                       /\ bk_ret' = [bk_ret EXCEPT ![t] = "ok"]
                       /\ bk_led' = [bk_led EXCEPT ![t].chg = @ + 1]
                       /\ UNCHANGED bk_mutex
                  ELSE /\ bk_mutex' = [bk_mutex EXCEPT ![h] = t]
                       /\ bk_stk' = [bk_stk EXCEPT ![t] =
                                        Call(t, "bm_node", Frame("rm_call", 0, 0, 0))]
                       /\ UNCHANGED <<bk_allocated, bk_node, bk_out, bk_ret, bk_led>>
    /\ UNCHANGED <<rg_glb_lim, bk_onlist, bk_list_mem, bk_gc_mutex, bk_mem_freed, nd_mutex, nd_onlist,
                   nd_allocated, rg_gc_mutex, rg_mem_freed, bk_fail>>

\* H5FL_blk_malloc after H5FL__blk_create_list: on NULL the mutex is given back at done: and
\* NULL returned; otherwise the node is put at the front of head->pq, node->allocated++,
\* head->allocated++, the mutex is given back and the block returned
BlkMallocNode(t) ==
    /\ At(t, "bm_node")
    /\ BlkFrame
    /\ LET h == Top(t).h
           s == Top(t).s
       IN /\ bk_mutex' = [bk_mutex EXCEPT ![h] = NoThread]
          /\ bk_stk' = [bk_stk EXCEPT ![t] = Return(t)]
          /\ IF bk_ret[t] = "fail"
             THEN UNCHANGED <<bk_allocated, bk_node, bk_out, bk_ret, bk_led>>
             ELSE /\ bk_node' = [bk_node EXCEPT ![h][s] =
                                    [pq |-> TRUE, onlist |-> 0, allocated |-> 1]]
                  /\ bk_allocated' = [bk_allocated EXCEPT ![h] = @ + 1]
                  /\ bk_out' = [bk_out EXCEPT ![h][s] = @ + 1]
                  /\ bk_ret' = [bk_ret EXCEPT ![t] = "ok"]
                  /\ bk_led' = [bk_led EXCEPT ![t].chg = @ + 1]
    /\ UNCHANGED <<rg_glb_lim, bk_onlist, bk_list_mem, bk_gc_mutex, bk_mem_freed, nd_mutex, nd_onlist,
                   nd_allocated, rg_gc_mutex, rg_mem_freed, bk_fail>>

\* H5FL__malloc: H5MM_malloc returns the memory, or returns NULL and H5FL_garbage_coll is
\* called: H5FL__arr_gc (no array head exists), then H5FL__blk_gc
H5FL__malloc(t) ==
    /\ At(t, "hm_try")
    /\ BlkFrame
    /\ \/ /\ bk_stk' = [bk_stk EXCEPT ![t] = Return(t)]
          /\ bk_ret' = [bk_ret EXCEPT ![t] = "ok"]
          /\ bk_led' = [bk_led EXCEPT ![t].gc = 0, ![t].tries = 1]
          /\ UNCHANGED bk_fail
       \/ /\ bk_fail < MaxFail
          /\ bk_fail' = bk_fail + 1
          /\ bk_stk' = [bk_stk EXCEPT ![t] =
                           Append(Call(t, "hm_retry", Frame("gca_reg", 0, 0, 0)),
                                  Frame("gc_lock", 0, 0, 0))]
          /\ bk_led' = [bk_led EXCEPT ![t].gc = 1, ![t].tries = 1]
          /\ UNCHANGED bk_ret
    /\ UNCHANGED <<rg_glb_lim, bk_mutex, bk_onlist, bk_list_mem, bk_allocated, bk_node, bk_gc_mutex,
                   bk_mem_freed, nd_mutex, nd_onlist, nd_allocated, rg_gc_mutex,
                   rg_mem_freed, bk_out>>

\* variant: after a second NULL the passes and the allocation are tried again
MallocRetry_Again(t) ==
    /\ At(t, "hm_retry")
    /\ BlkFrame
    /\ \/ /\ bk_stk' = [bk_stk EXCEPT ![t] = Return(t)]
          /\ bk_led' = [bk_led EXCEPT ![t].tries = @ + 1]
          /\ bk_ret' = [bk_ret EXCEPT ![t] = "ok"]
          /\ UNCHANGED bk_fail
       \/ /\ bk_fail < MaxFail
          /\ bk_fail' = bk_fail + 1
          /\ bk_stk' = [bk_stk EXCEPT ![t] =
                           Append(Call(t, "hm_retry", Frame("gca_reg", 0, 0, 0)),
                                  Frame("gc_lock", 0, 0, 0))]
          /\ bk_led' = [bk_led EXCEPT ![t].tries = @ + 1, ![t].gc = @ + 1]
          /\ UNCHANGED bk_ret
    /\ UNCHANGED <<rg_glb_lim, bk_mutex, bk_onlist, bk_list_mem, bk_allocated, bk_node,
                   bk_gc_mutex, bk_mem_freed, nd_mutex, nd_onlist, nd_allocated,
                   rg_gc_mutex, rg_mem_freed, bk_out>>

\* H5FL__malloc after H5FL_garbage_coll: H5MM_malloc once more, and its result is returned
MallocRetry(t) ==
    /\ At(t, "hm_retry")
    /\ BlkFrame
    /\ bk_stk' = [bk_stk EXCEPT ![t] = Return(t)]
    /\ bk_led' = [bk_led EXCEPT ![t].tries = @ + 1]
    /\ \/ /\ bk_ret' = [bk_ret EXCEPT ![t] = "ok"]
          /\ UNCHANGED bk_fail
       \/ /\ bk_fail < MaxFail
          /\ bk_fail' = bk_fail + 1
          /\ bk_ret' = [bk_ret EXCEPT ![t] = "fail"]
    /\ UNCHANGED <<rg_glb_lim, bk_mutex, bk_onlist, bk_list_mem, bk_allocated, bk_node, bk_gc_mutex,
                   bk_mem_freed, nd_mutex, nd_onlist, nd_allocated, rg_gc_mutex,
                   rg_mem_freed, bk_out>>

\* H5FL_reg_malloc on the head of H5FL_blk_node_t (H5FL_CALLOC in H5FL__blk_create_list),
\* first critical section: a node is taken from the list, or H5FL__malloc is called with the
\* regular head's mutex given back
NodeMalloc(t) ==
    /\ At(t, "rm_call")
    /\ nd_mutex = NoThread
    /\ BlkFrame
    /\ IF nd_onlist > 0
       THEN /\ nd_onlist' = nd_onlist - 1
            /\ bk_stk' = [bk_stk EXCEPT ![t] = Goto(t, "rm_gauge")]
       ELSE /\ bk_stk' = [bk_stk EXCEPT ![t] = Call(t, "rm_lock2", Frame("hm_try", 0, 0, 0))]
            /\ UNCHANGED nd_onlist
    /\ UNCHANGED <<rg_glb_lim, bk_mutex, bk_onlist, bk_list_mem, bk_allocated, bk_node, bk_gc_mutex,
                   bk_mem_freed, nd_mutex, nd_allocated, rg_gc_mutex, rg_mem_freed, bk_ret,
                   bk_out, bk_fail, bk_led>>

\* H5FL_reg_malloc, node taken from the list: mem_freed -= head->size; return it
NodeMallocGauge(t) ==
    /\ At(t, "rm_gauge")
    /\ BlkFrame
    /\ rg_mem_freed' = rg_mem_freed - NodeSize
    /\ bk_stk' = [bk_stk EXCEPT ![t] = Return(t)]
    /\ bk_ret' = [bk_ret EXCEPT ![t] = "ok"]
    /\ UNCHANGED <<rg_glb_lim, bk_mutex, bk_onlist, bk_list_mem, bk_allocated, bk_node, bk_gc_mutex,
                   bk_mem_freed, nd_mutex, nd_onlist, nd_allocated, rg_gc_mutex, bk_out,
                   bk_fail, bk_led>>

\* H5FL_reg_malloc after H5FL__malloc: NULL is passed on; otherwise head->allocated++ under
\* the regular head's mutex
NodeMallocLock2(t) ==
    /\ At(t, "rm_lock2")
    /\ BlkFrame
    /\ bk_stk' = [bk_stk EXCEPT ![t] = Return(t)]
    /\ IF bk_ret[t] = "fail"
       THEN UNCHANGED nd_allocated
       ELSE /\ nd_mutex = NoThread
            /\ nd_allocated' = nd_allocated + 1
    /\ UNCHANGED <<rg_glb_lim, bk_mutex, bk_onlist, bk_list_mem, bk_allocated, bk_node, bk_gc_mutex,
                   bk_mem_freed, nd_mutex, nd_onlist, rg_gc_mutex, rg_mem_freed, bk_ret,
                   bk_out, bk_fail, bk_led>>

\* H5FL_reg_free on the head of H5FL_blk_node_t (H5FL_FREE in H5FL__blk_gc_list), critical
\* section: link the node, onlist = ++head->onlist
NodeFree(t) ==
    /\ At(t, "rf_call")
    /\ nd_mutex = NoThread
    /\ BlkFrame
    /\ nd_onlist' = nd_onlist + 1
    /\ bk_stk' = [bk_stk EXCEPT ![t] = [Goto(t, "rf_gauge") EXCEPT
                                           ![Len(bk_stk[t])].loc = nd_onlist + 1]]
    /\ UNCHANGED <<rg_glb_lim, bk_mutex, bk_onlist, bk_list_mem, bk_allocated, bk_node, bk_gc_mutex,
                   bk_mem_freed, nd_mutex, nd_allocated, rg_gc_mutex, rg_mem_freed, bk_ret,
                   bk_out, bk_fail, bk_led>>

\* H5FL_reg_free: mem_freed += head->size; if (onlist * head->size > H5FL_reg_lst_mem_lim)
\* H5FL__reg_gc_list(head)
NodeFreeGauge(t) ==
    /\ At(t, "rf_gauge")
    /\ BlkFrame
    /\ rg_mem_freed' = rg_mem_freed + NodeSize
    /\ bk_stk' = [bk_stk EXCEPT ![t] =
                     IF Top(t).loc * NodeSize > NodeLstLim
                     THEN Call(t, "rf_chk2", Frame("rgl_cs", 0, 0, 0))
                     ELSE Goto(t, "rf_chk2")]
    /\ UNCHANGED <<rg_glb_lim, bk_mutex, bk_onlist, bk_list_mem, bk_allocated, bk_node, bk_gc_mutex,
                   bk_mem_freed, nd_mutex, nd_onlist, nd_allocated, rg_gc_mutex, bk_ret,
                   bk_out, bk_fail, bk_led>>

\* H5FL_reg_free: if (mem_freed > H5FL_reg_glb_mem_lim) H5FL__reg_gc(); otherwise return
NodeFreeGlobal(t) ==
    /\ At(t, "rf_chk2")
    /\ BlkFrame
    /\ bk_stk' = [bk_stk EXCEPT ![t] =
                     IF GaugeExceeds(rg_mem_freed, rg_glb_lim)
                     THEN Call(t, "rf_done", Frame("rgc_lock", 0, 0, 0))
                     ELSE Return(t)]
    /\ UNCHANGED <<rg_glb_lim, bk_mutex, bk_onlist, bk_list_mem, bk_allocated, bk_node, bk_gc_mutex,
                   bk_mem_freed, nd_mutex, nd_onlist, nd_allocated, rg_gc_mutex,
                   rg_mem_freed, bk_ret, bk_out, bk_fail, bk_led>>

\* H5FL__reg_gc_list on the head of H5FL_blk_node_t, critical section: the nodes on the list
\* are freed, head->allocated -= head->onlist, head->onlist = 0
NodeGcList(t) ==
    /\ At(t, "rgl_cs")
    /\ nd_mutex = NoThread
    /\ BlkFrame
    /\ nd_allocated' = nd_allocated - nd_onlist
    /\ nd_onlist' = 0
    /\ bk_stk' = [bk_stk EXCEPT ![t] = [Goto(t, "rgl_gauge") EXCEPT
                                           ![Len(bk_stk[t])].loc = nd_onlist]]
    /\ UNCHANGED <<rg_glb_lim, bk_mutex, bk_onlist, bk_list_mem, bk_allocated, bk_node, bk_gc_mutex,
                   bk_mem_freed, nd_mutex, rg_gc_mutex, rg_mem_freed, bk_ret, bk_out,
                   bk_fail, bk_led>>

\* H5FL__reg_gc_list: mem_freed -= onlist * head->size; return
NodeGcListGauge(t) ==
    /\ At(t, "rgl_gauge")
    /\ BlkFrame
    /\ rg_mem_freed' = rg_mem_freed - Top(t).loc * NodeSize
    /\ bk_stk' = [bk_stk EXCEPT ![t] = Return(t)]
    /\ UNCHANGED <<rg_glb_lim, bk_mutex, bk_onlist, bk_list_mem, bk_allocated, bk_node, bk_gc_mutex,
                   bk_mem_freed, nd_mutex, nd_onlist, nd_allocated, rg_gc_mutex, bk_ret,
                   bk_out, bk_fail, bk_led>>

\* H5FL__reg_gc: take H5FL_reg_gc_head.mutex and call H5FL__reg_gc_list on the head
H5FL__reg_gc(t) ==
    /\ At(t, "rgc_lock")
    /\ rg_gc_mutex = NoThread
    /\ BlkFrame
    /\ rg_gc_mutex' = t
    /\ bk_stk' = [bk_stk EXCEPT ![t] = Call(t, "rgc_end", Frame("rgl_cs", 0, 0, 0))]
    /\ UNCHANGED <<rg_glb_lim, bk_mutex, bk_onlist, bk_list_mem, bk_allocated, bk_node, bk_gc_mutex,
                   bk_mem_freed, nd_mutex, nd_onlist, nd_allocated, rg_mem_freed, bk_ret,
                   bk_out, bk_fail, bk_led>>

\* H5FL__reg_gc: give H5FL_reg_gc_head.mutex back and return
RegGcEnd(t) ==
    /\ At(t, "rgc_end")
    /\ BlkFrame
    /\ rg_gc_mutex' = NoThread
    /\ bk_stk' = [bk_stk EXCEPT ![t] = Return(t)]
    /\ UNCHANGED <<rg_glb_lim, bk_mutex, bk_onlist, bk_list_mem, bk_allocated, bk_node, bk_gc_mutex,
                   bk_mem_freed, nd_mutex, nd_onlist, nd_allocated, rg_mem_freed, bk_ret,
                   bk_out, bk_fail, bk_led>>

\* H5FL_blk_free, critical section (head->mutex taken and given back): the node of the
\* block's size is found (a block in a caller's hands keeps its node in head->pq), the block
\* is linked, node->onlist++, head->onlist++, head->list_mem += size, list_mem = head->list_mem
H5FL_blk_free(t, h, s) ==
    /\ MayCall(t)
    /\ bk_out[h][s] > 0
    /\ bk_node[h][s].pq
    /\ bk_mutex[h] = NoThread
    /\ BlkFrame
    /\ bk_out' = [bk_out EXCEPT ![h][s] = @ - 1]
    /\ bk_node' = [bk_node EXCEPT ![h][s].onlist = @ + 1]
    /\ bk_onlist' = [bk_onlist EXCEPT ![h] = @ + 1]
    /\ bk_list_mem' = [bk_list_mem EXCEPT ![h] = @ + s]
    /\ bk_stk' = [bk_stk EXCEPT ![t] = <<Frame("bf_gauge", h, s, bk_list_mem[h] + s)>>]
    /\ bk_ret' = [bk_ret EXCEPT ![t] = "none"]
    /\ UNCHANGED <<rg_glb_lim, bk_mutex, bk_allocated, bk_gc_mutex, bk_mem_freed, nd_mutex, nd_onlist,
                   nd_allocated, rg_gc_mutex, rg_mem_freed, bk_fail, bk_led>>

\* H5FL_blk_free: mem_freed += size; if (list_mem > H5FL_blk_lst_mem_lim)
\* H5FL__blk_gc_list(head)
BlkFreeGauge(t) ==
    /\ At(t, "bf_gauge")
    /\ BlkFrame
    /\ bk_mem_freed' = bk_mem_freed + Top(t).s
    /\ bk_stk' = [bk_stk EXCEPT ![t] =
                     IF Top(t).loc > BlkLstLim
                     THEN Call(t, "bf_chk2", Frame("gl_lock", Top(t).h, 1, 0))
                     ELSE Goto(t, "bf_chk2")]
    /\ UNCHANGED <<rg_glb_lim, bk_mutex, bk_onlist, bk_list_mem, bk_allocated, bk_node, bk_gc_mutex,
                   nd_mutex, nd_onlist, nd_allocated, rg_gc_mutex, rg_mem_freed, bk_ret,
                   bk_out, bk_fail, bk_led>>

\* H5FL_blk_free: if (mem_freed > H5FL_blk_glb_mem_lim) H5FL__blk_gc(); otherwise return
BlkFreeGlobal(t) ==
    /\ At(t, "bf_chk2")
    /\ BlkFrame
    /\ IF GaugeExceeds(bk_mem_freed, BlkGlbLim)
       THEN bk_stk' = [bk_stk EXCEPT ![t] = Call(t, "bf_done", Frame("gc_lock", 0, 0, 0))]
       ELSE bk_stk' = [bk_stk EXCEPT ![t] = Return(t)]
    /\ UNCHANGED <<rg_glb_lim, bk_mutex, bk_onlist, bk_list_mem, bk_allocated, bk_node, bk_gc_mutex,
                   bk_mem_freed, nd_mutex, nd_onlist, nd_allocated, rg_gc_mutex,
                   rg_mem_freed, bk_ret, bk_out, bk_fail, bk_led>>

\* H5FL__blk_gc_list: take head->mutex
BlkGcListLock(t) ==
    /\ At(t, "gl_lock")
    /\ bk_mutex[Top(t).h] = NoThread
    /\ BlkFrame
    /\ bk_mutex' = [bk_mutex EXCEPT ![Top(t).h] = t]
    /\ bk_stk' = [bk_stk EXCEPT ![t] = Goto(t, "gl_walk")]
    /\ UNCHANGED <<rg_glb_lim, bk_onlist, bk_list_mem, bk_allocated, bk_node, bk_gc_mutex, bk_mem_freed,
                   nd_mutex, nd_onlist, nd_allocated, rg_gc_mutex, rg_mem_freed, bk_ret,
                   bk_out, bk_fail, bk_led>>

\* H5FL__blk_gc_list, one turn of the loop over head->pq (the frame's s is the size the walk
\* has come to): the blocks on the node's list are freed, node->allocated and
\* head->allocated -= node->onlist, total_freed += list_freed, head->list_mem -= list_freed,
\* node->onlist = 0; a node with allocated == 0 is taken out of the queue and given to
\* H5FL_FREE. After the last node: head->onlist = 0, the mutex is given back.
BlkGcListNode(t) ==
    /\ At(t, "gl_walk")
    /\ BlkFrame
    /\ LET h == Top(t).h
           s == Top(t).s
           top == Len(bk_stk[t])
       IN IF s > MaxBlkSize
          THEN /\ bk_onlist' = [bk_onlist EXCEPT ![h] = 0]
               /\ bk_mutex' = [bk_mutex EXCEPT ![h] = NoThread]
               /\ bk_stk' = [bk_stk EXCEPT ![t] = Goto(t, "gl_gauge")]
               /\ UNCHANGED <<bk_node, bk_allocated, bk_list_mem, bk_led>>
          ELSE IF ~bk_node[h][s].pq
          THEN /\ bk_stk' = [bk_stk EXCEPT ![t][top].s = s + 1]
               /\ UNCHANGED <<bk_node, bk_allocated, bk_list_mem, bk_onlist, bk_mutex,
                              bk_led>>
          ELSE LET n == bk_node[h][s]
                   unused == n.allocated - n.onlist = 0
               IN /\ bk_node' = [bk_node EXCEPT ![h][s] =
                                    [pq |-> ~unused, onlist |-> 0,
                                     allocated |-> n.allocated - n.onlist]]
                  /\ bk_allocated' = [bk_allocated EXCEPT ![h] = @ - n.onlist]
                  /\ bk_list_mem' = [bk_list_mem EXCEPT ![h] = @ - n.onlist * s]
                  /\ bk_stk' = [bk_stk EXCEPT ![t] =
                                   LET st == [bk_stk[t] EXCEPT
                                                 ![top].s = s + 1,
                                                 ![top].loc = @ + n.onlist * s]
                                   IN IF unused
                                      THEN Append(st, Frame("rf_call", 0, 0, 0))
                                      ELSE st]
                  /\ bk_led' = IF bk_stk[t][1].pc \in {"bm_lock2", "bm_node"}
                                   /\ bk_led[t].h = h
                                THEN [bk_led EXCEPT ![t].chg = @ - n.onlist]
                                ELSE bk_led
                  /\ UNCHANGED <<bk_onlist, bk_mutex>>
    /\ UNCHANGED <<rg_glb_lim, bk_gc_mutex, bk_mem_freed, nd_mutex, nd_onlist, nd_allocated,
                   rg_gc_mutex, rg_mem_freed, bk_ret, bk_out, bk_fail>>

\* H5FL__blk_gc_list: mem_freed -= total_freed; return
BlkGcListGauge(t) ==
    /\ At(t, "gl_gauge")
    /\ BlkFrame
    /\ bk_mem_freed' = bk_mem_freed - Top(t).loc
    /\ bk_stk' = [bk_stk EXCEPT ![t] = Return(t)]
    /\ UNCHANGED <<rg_glb_lim, bk_mutex, bk_onlist, bk_list_mem, bk_allocated, bk_node, bk_gc_mutex,
                   nd_mutex, nd_onlist, nd_allocated, rg_gc_mutex, rg_mem_freed, bk_ret,
                   bk_out, bk_fail, bk_led>>

\* H5FL__blk_gc: take H5FL_blk_gc_head.mutex and call H5FL__blk_gc_list on the first head
H5FL__blk_gc(t) ==
    /\ At(t, "gc_lock")
    /\ bk_gc_mutex = NoThread
    /\ BlkFrame
    /\ bk_gc_mutex' = t
    /\ bk_stk' = [bk_stk EXCEPT ![t] =
                     Append([Goto(t, "gc_walk") EXCEPT ![Len(bk_stk[t])].h = 2],
                            Frame("gl_lock", 1, 1, 0))]
    /\ UNCHANGED <<rg_glb_lim, bk_mutex, bk_onlist, bk_list_mem, bk_allocated, bk_node, bk_mem_freed,
                   nd_mutex, nd_onlist, nd_allocated, rg_gc_mutex, rg_mem_freed, bk_ret,
                   bk_out, bk_fail, bk_led>>

\* H5FL__blk_gc after the loop: assert(mem_freed == 0) is evaluated (a build with NDEBUG
\* goes on whatever the value), H5FL_blk_gc_head.mutex is given back, return
BlkGcEnd(t) ==
    /\ At(t, "gc_assert")
    /\ BlkFrame
    /\ bk_gc_mutex' = NoThread
    /\ bk_stk' = [bk_stk EXCEPT ![t] = Return(t)]
    /\ UNCHANGED <<rg_glb_lim, bk_mutex, bk_onlist, bk_list_mem, bk_allocated, bk_node, bk_mem_freed,
                   nd_mutex, nd_onlist, nd_allocated, rg_gc_mutex, rg_mem_freed, bk_ret,
                   bk_out, bk_fail, bk_led>>

\* a thread asks for a mutex it holds itself. The mutexes are of type H5TS_MUTEX_TYPE_PLAIN:
\* the request is undefined, it never returns (no step of the thread) or it fails. On the
\* failure every caller up the stack passes the error on (H5FL__blk_gc_list,
\* H5FL__blk_gc, H5FL_garbage_coll, H5FL__malloc, H5FL_reg_malloc,
\* H5FL__blk_create_list), none gives a mutex back except H5FL_blk_malloc, which gives
\* back the head's mutex at done:
LockOwnedFails(t) ==
    /\ At(t, "gl_lock")
    /\ bk_mutex[Top(t).h] = t
    /\ BlkFrame
    /\ bk_mutex' = IF bk_stk[t][1].pc = "bm_node"
                   THEN [bk_mutex EXCEPT ![bk_stk[t][1].h] = NoThread]
                   ELSE bk_mutex
    /\ bk_stk' = [bk_stk EXCEPT ![t] = <<>>]
    /\ bk_ret' = [bk_ret EXCEPT ![t] = "lockfail"]
    /\ UNCHANGED <<rg_glb_lim, bk_onlist, bk_list_mem, bk_allocated, bk_node, bk_gc_mutex, bk_mem_freed,
                   nd_mutex, nd_onlist, nd_allocated, rg_gc_mutex, rg_mem_freed, bk_out,
                   bk_fail, bk_led>>

\* the heads after H5FL__blk_init and H5FL__reg_init: nothing allocated, no size node
InitBlk ==
    /\ H5TS__init /\ LocksIdle /\ FacIdle /\ build = "CONCURRENCY" /\ DlIdle /\ FlIdle
    /\ CoreIdle
    /\ dlftt = [t \in Threads |-> 0]
    /\ bk_mutex = [h \in BlkHeads |-> NoThread]
    /\ bk_onlist = [h \in BlkHeads |-> 0]
    /\ bk_list_mem = [h \in BlkHeads |-> 0]
    /\ bk_allocated = [h \in BlkHeads |-> 0]
    /\ bk_node = [h \in BlkHeads |->
                     [s \in BlkSizes |-> [pq |-> FALSE, onlist |-> 0, allocated |-> 0]]]
    /\ bk_gc_mutex = NoThread
    /\ bk_mem_freed = 0
    /\ nd_mutex = NoThread
    /\ nd_onlist = 0
    /\ nd_allocated = 0
    /\ rg_gc_mutex = NoThread
    /\ rg_mem_freed = 0
    /\ rg_glb_lim \in 0..MaxNodeGlbLim
    /\ bk_stk = [t \in Threads |-> <<>>]
    /\ bk_ret = [t \in Threads |-> "none"]
    /\ bk_out = [h \in BlkHeads |-> [s \in BlkSizes |-> 0]]
    /\ bk_fail = 0
    /\ bk_led = [t \in Threads |-> [h |-> 0, chg |-> 0, gc |-> 0, tries |-> 0]]

NextBlk ==
    \E t \in Threads :
        \/ \E h \in BlkHeads, s \in BlkSizes : H5FL_blk_malloc(t, h, s)
        \/ BlkMallocGauge(t)
        \/ BlkMallocLock2(t)
        \/ BlkMallocNode(t)
        \/ H5FL__malloc(t)
        \/ MallocRetry(t)
        \/ NodeMalloc(t)
        \/ NodeMallocGauge(t)
        \/ NodeMallocLock2(t)
        \/ NodeFree(t)
        \/ NodeFreeGauge(t)
        \/ NodeFreeGlobal(t)
        \/ NodeGcList(t)
        \/ NodeGcListGauge(t)
        \/ H5FL__reg_gc(t)
        \/ RegGcEnd(t)
        \/ \E h \in BlkHeads, s \in BlkSizes : H5FL_blk_free(t, h, s)
        \/ BlkFreeGauge(t)
        \/ BlkFreeGlobal(t)
        \/ BlkGcListLock(t)
        \/ BlkGcListNode(t)
        \/ BlkGcListGauge(t)
        \/ H5FL__blk_gc(t)
        \/ BlkGcEnd(t)
        \/ LockOwnedFails(t)

SpecBlk == InitBlk /\ [][NextBlk]_vars

\* the thread asks for the mutex of a list of heads (H5FL_blk_gc_head.mutex in
\* H5FL__blk_gc, H5FL_reg_gc_head.mutex in H5FL__reg_gc)
RequestsListOfHeads(t) == At(t, "gc_lock") \/ At(t, "rgc_lock")

\* the owner of the mutex the thread is asking for, NoThread when it asks for none
WaitsFor(t) ==
    IF At(t, "gl_lock") THEN bk_mutex[Top(t).h]
    ELSE IF At(t, "bm_lock2") /\ bk_ret[t] # "fail" THEN bk_mutex[Top(t).h]
    ELSE IF At(t, "gc_lock") THEN bk_gc_mutex
    ELSE IF At(t, "rgc_lock") THEN rg_gc_mutex
    ELSE NoThread

\* threads that wait for each other's mutexes, or a thread that waits for its own
Deadlocked ==
    \E t, u \in Threads : WaitsFor(t) = u /\ WaitsFor(u) = t

\* C21, first part: a thread that asks for the mutex of a list of heads holds no head's mutex
C21_HoldsNoHead ==
    \A t \in Threads : RequestsListOfHeads(t) => HeldHeads(t) = {}

\* C21, second part: no threads inside free-list calls wait for each other
C21_NoDeadlock ==
    ~Deadlocked

\* C21: free-list mutexes are taken list-of-heads first, then head: a thread that asks for
\* the mutex of a list of heads, in a class pass or in the pass over all classes after an
\* allocation failure, holds no head's mutex; and no free-list calls deadlock.
C21_ListOfHeadsFirst ==
    C21_HoldsNoHead /\ C21_NoDeadlock

\* C27: when a pass of H5FL__blk_gc has called H5FL__blk_gc_list on every head (it stands
\* at its assert), H5FL_blk_gc_head.mem_freed is 0 and head->list_mem of every head is 0,
\* whatever other threads free in the meantime.
C27_PassLeavesNothing ==
    \A t \in Threads :
        At(t, "gc_assert") =>
            /\ bk_mem_freed = 0
            /\ \A h \in BlkHeads : bk_list_mem[h] = 0

\* C28, as stated: an H5FL_blk_malloc that fails after the allocator has failed has run one
\* pass over all classes and two H5MM_malloc calls, and has left head->allocated as it was.
C28_AsStated ==
    \A t \in Threads :
        (bk_stk[t] = <<>> /\ bk_ret[t] = "fail") =>
            (bk_led[t].gc = 1 /\ bk_led[t].tries = 2 /\ bk_led[t].chg = 0)

\* C28: an H5FL__malloc whose first H5MM_malloc fails calls H5FL_garbage_coll once and,
\* when that returns without error, H5MM_malloc once more; its caller gets the memory of the
\* first or of the second call, or NULL after the second failure or after an error of the
\* pass. The H5FL_blk_malloc that returns NULL has not incremented head->allocated: its
\* steps have changed the count only by the blocks its own pass has collected from the
\* head's list.
C28_OneGcOneRetry ==
    \A t \in Threads :
        /\ bk_led[t].gc \in {0, 1} /\ bk_led[t].tries \in {0, 1, 2}
        /\ At(t, "hm_retry") => (bk_led[t].gc = 1 /\ bk_led[t].tries = 1)
        /\ (At(t, "bm_lock2") \/ At(t, "rm_lock2")) =>
              IF bk_ret[t] = "fail"
              THEN bk_led[t].gc = 1 /\ bk_led[t].tries = 2
              ELSE \/ bk_led[t].gc = 0 /\ bk_led[t].tries = 1
                   \/ bk_led[t].gc = 1 /\ bk_led[t].tries = 2
        /\ (bk_stk[t] = <<>> /\ bk_ret[t] = "fail") =>
              (bk_led[t].gc = 1 /\ bk_led[t].tries = 2 /\ bk_led[t].chg <= 0)
        /\ (bk_stk[t] = <<>> /\ bk_ret[t] = "lockfail") =>
              (bk_led[t].gc = 1 /\ bk_led[t].tries = 1 /\ bk_led[t].chg <= 0)

\* an H5FL_blk_malloc has failed after two H5MM_malloc calls and one pass, and the pass has
\* collected a block from the head
C28_Witness ==
    \E t \in Threads :
        /\ bk_stk[t] = <<>> /\ bk_ret[t] = "fail"
        /\ bk_led[t].gc = 1 /\ bk_led[t].tries = 2
        /\ bk_led[t].chg < 0

(* ------------------------------------------------------------------ *)
(* Factory free lists: H5FL_fac_malloc, H5FL_fac_free, H5FL_fac_term   *)
(* ------------------------------------------------------------------ *)

\* blocks of the factory that exist at a time
MaxFacLive == 2

\* factory->size
FacSize == 1

\* H5FL_fac_lst_mem_lim and H5FL_fac_glb_mem_lim as set by H5FL_set_free_list_limits
FacLstLim == 1

FacGlbLim == 1

\* the thread is inside H5FL_fac_term
InTerm(t) == fac_pc[t] \in {"ft_lock", "ft_cs"} \/ fac_ret[t] = "ft_lock"

\* a thread is between two calls; the application makes no call on the factory once a call
\* of the thread has failed, once the factory is terminated, or while another thread
\* terminates it
MayCallFac(t) ==
    /\ fac_pc[t] = "idle"
    /\ fac_res[t] # "fail"
    /\ fac_linked
    /\ \A u \in Threads : ~InTerm(u)

\* blocks that exist, counting the ones running mallocs are about to add
FacLive == fac_allocated + Cardinality({t \in Threads : fac_pc[t] = "fm_lock2"})

\* H5FL_fac_malloc, first critical section (factory mutex taken and given back): a block is
\* taken from the list, or H5FL__malloc is called
H5FL_fac_malloc(t) ==
    /\ MayCallFac(t)
    /\ fac_mutex = NoThread
    /\ FacFrame
    /\ IF fac_onlist > 0
       THEN /\ fac_onlist' = fac_onlist - 1
            /\ fac_pc' = [fac_pc EXCEPT ![t] = "fm_gauge"]
       ELSE /\ FacLive < MaxFacLive
            /\ fac_pc' = [fac_pc EXCEPT ![t] = "fm_lock2"]
            /\ UNCHANGED fac_onlist
    /\ fac_res' = [fac_res EXCEPT ![t] = "none"]
    /\ UNCHANGED <<fac_mutex, fac_gc_mutex, fac_allocated, fac_mem_freed, fac_linked,
                   fac_out, fac_loc, fac_ret>>

\* H5FL_fac_malloc, block taken from the list: mem_freed -= head->size; return it
FacMallocGauge(t) ==
    /\ fac_pc[t] = "fm_gauge"
    /\ FacFrame
    /\ fac_mem_freed' = fac_mem_freed - FacSize
    /\ fac_out' = fac_out + 1
    /\ fac_pc' = [fac_pc EXCEPT ![t] = "idle"]
    /\ fac_res' = [fac_res EXCEPT ![t] = "ok"]
    /\ UNCHANGED <<fac_mutex, fac_gc_mutex, fac_allocated, fac_onlist, fac_linked, fac_loc,
                   fac_ret>>

\* H5FL_fac_malloc after H5FL__malloc: head->allocated++ under the factory mutex; return
FacMallocCount(t) ==
    /\ fac_pc[t] = "fm_lock2"
    /\ fac_mutex = NoThread
    /\ FacFrame
    /\ fac_allocated' = fac_allocated + 1
    /\ fac_out' = fac_out + 1
    /\ fac_pc' = [fac_pc EXCEPT ![t] = "idle"]
    /\ fac_res' = [fac_res EXCEPT ![t] = "ok"]
    /\ UNCHANGED <<fac_mutex, fac_gc_mutex, fac_onlist, fac_mem_freed, fac_linked, fac_loc,
                   fac_ret>>

\* H5FL_fac_free, critical section: link the block, onlist = ++head->onlist
H5FL_fac_free(t) ==
    /\ MayCallFac(t)
    /\ fac_out > 0
    /\ fac_mutex = NoThread
    /\ FacFrame
    /\ fac_out' = fac_out - 1
    /\ fac_onlist' = fac_onlist + 1
    /\ fac_loc' = [fac_loc EXCEPT ![t] = fac_onlist + 1]
    /\ fac_pc' = [fac_pc EXCEPT ![t] = "ff_gauge"]
    /\ fac_res' = [fac_res EXCEPT ![t] = "none"]
    /\ UNCHANGED <<fac_mutex, fac_gc_mutex, fac_allocated, fac_mem_freed, fac_linked,
                   fac_ret>>

\* H5FL_fac_free: mem_freed += head->size; if (onlist * head->size > H5FL_fac_lst_mem_lim)
\* H5FL__fac_gc_list(head)
FacFreeGauge(t) ==
    /\ fac_pc[t] = "ff_gauge"
    /\ FacFrame
    /\ fac_mem_freed' = fac_mem_freed + FacSize
    /\ IF fac_loc[t] * FacSize > FacLstLim
       THEN /\ fac_pc' = [fac_pc EXCEPT ![t] = "fgl_cs"]
            /\ fac_ret' = [fac_ret EXCEPT ![t] = "ff_chk2"]
       ELSE /\ fac_pc' = [fac_pc EXCEPT ![t] = "ff_chk2"]
            /\ UNCHANGED fac_ret
    /\ fac_loc' = [fac_loc EXCEPT ![t] = 0]
    /\ UNCHANGED <<fac_mutex, fac_gc_mutex, fac_allocated, fac_onlist, fac_linked, fac_out,
                   fac_res>>

\* H5FL_fac_free: if (mem_freed > H5FL_fac_glb_mem_lim) H5FL__fac_gc(); otherwise return
FacFreeGlobal(t) ==
    /\ fac_pc[t] = "ff_chk2"
    /\ FacFrame
    /\ IF GaugeExceeds(fac_mem_freed, FacGlbLim)
       THEN /\ fac_pc' = [fac_pc EXCEPT ![t] = "fgc_lock"]
            /\ UNCHANGED fac_res
       ELSE /\ fac_pc' = [fac_pc EXCEPT ![t] = "idle"]
            /\ fac_res' = [fac_res EXCEPT ![t] = "ok"]
    /\ UNCHANGED <<fac_mutex, fac_gc_mutex, fac_allocated, fac_onlist, fac_mem_freed,
                   fac_linked, fac_out, fac_loc, fac_ret>>

\* H5FL__fac_gc_list, critical section: onlist = head->onlist, the blocks on the list are
\* freed, head->allocated -= head->onlist, head->onlist = 0
FacGcList(t) ==
    /\ fac_pc[t] = "fgl_cs"
    /\ fac_mutex = NoThread
    /\ FacFrame
    /\ fac_loc' = [fac_loc EXCEPT ![t] = fac_onlist]
    /\ fac_allocated' = fac_allocated - fac_onlist
    /\ fac_onlist' = 0
    /\ fac_pc' = [fac_pc EXCEPT ![t] = "fgl_gauge"]
    /\ UNCHANGED <<fac_mutex, fac_gc_mutex, fac_mem_freed, fac_linked, fac_out, fac_res,
                   fac_ret>>

\* H5FL__fac_gc_list: mem_freed -= onlist * head->size; return to the caller
FacGcListGauge(t) ==
    /\ fac_pc[t] = "fgl_gauge"
    /\ FacFrame
    /\ fac_mem_freed' = fac_mem_freed - fac_loc[t] * FacSize
    /\ fac_loc' = [fac_loc EXCEPT ![t] = 0]
    /\ fac_pc' = [fac_pc EXCEPT ![t] = fac_ret[t]]
    /\ fac_ret' = [fac_ret EXCEPT ![t] = "idle"]
    /\ UNCHANGED <<fac_mutex, fac_gc_mutex, fac_allocated, fac_onlist, fac_linked, fac_out,
                   fac_res>>

\* H5FL__fac_gc: take H5FL_fac_gc_head.mutex and call H5FL__fac_gc_list on the factory
H5FL__fac_gc(t) ==
    /\ fac_pc[t] = "fgc_lock"
    /\ fac_gc_mutex = NoThread
    /\ FacFrame
    /\ fac_gc_mutex' = t
    /\ fac_pc' = [fac_pc EXCEPT ![t] = "fgl_cs"]
    /\ fac_ret' = [fac_ret EXCEPT ![t] = "fgc_end"]
    /\ UNCHANGED <<fac_mutex, fac_allocated, fac_onlist, fac_mem_freed, fac_linked, fac_out,
                   fac_loc, fac_res>>

\* H5FL__fac_gc after the loop: give H5FL_fac_gc_head.mutex back; H5FL_fac_free returns
FacGcEnd(t) ==
    /\ fac_pc[t] = "fgc_end"
    /\ FacFrame
    /\ fac_gc_mutex' = NoThread
    /\ fac_pc' = [fac_pc EXCEPT ![t] = "idle"]
    /\ fac_res' = [fac_res EXCEPT ![t] = "ok"]
    /\ UNCHANGED <<fac_mutex, fac_allocated, fac_onlist, fac_mem_freed, fac_linked, fac_out,
                   fac_loc, fac_ret>>

\* H5FL_fac_term: H5FL__fac_gc_list(factory) is called; no other thread is inside a call on
\* the factory
H5FL_fac_term(t) ==
    /\ MayCallFac(t)
    /\ \A u \in Threads : fac_pc[u] = "idle"
    /\ FacFrame
    /\ fac_pc' = [fac_pc EXCEPT ![t] = "fgl_cs"]
    /\ fac_ret' = [fac_ret EXCEPT ![t] = "ft_lock"]
    /\ fac_res' = [fac_res EXCEPT ![t] = "none"]
    /\ UNCHANGED <<fac_mutex, fac_gc_mutex, fac_allocated, fac_onlist, fac_mem_freed,
                   fac_linked, fac_out, fac_loc>>

\* H5FL_fac_term: take H5FL_fac_gc_head.mutex
FacTermLock(t) ==
    /\ fac_pc[t] = "ft_lock"
    /\ fac_gc_mutex = NoThread
    /\ FacFrame
    /\ fac_gc_mutex' = t
    /\ fac_pc' = [fac_pc EXCEPT ![t] = "ft_cs"]
    /\ UNCHANGED <<fac_mutex, fac_allocated, fac_onlist, fac_mem_freed, fac_linked, fac_out,
                   fac_loc, fac_res, fac_ret>>

\* H5FL_fac_term: take the factory mutex; if (factory->allocated > 0) HGOTO_ERROR, and done:
\* gives nothing back; otherwise the factory is unlinked, both mutexes are given back and
\* the factory is freed
FacTermCheck(t) ==
    /\ fac_pc[t] = "ft_cs"
    /\ fac_mutex = NoThread
    /\ FacFrame
    /\ IF fac_allocated > 0
       THEN /\ fac_mutex' = t
            /\ fac_res' = [fac_res EXCEPT ![t] = "fail"]
            /\ UNCHANGED <<fac_gc_mutex, fac_linked>>
       ELSE /\ fac_linked' = FALSE
            /\ fac_gc_mutex' = NoThread
            /\ fac_res' = [fac_res EXCEPT ![t] = "ok"]
            /\ UNCHANGED fac_mutex
    /\ fac_pc' = [fac_pc EXCEPT ![t] = "idle"]
    /\ UNCHANGED <<fac_allocated, fac_onlist, fac_mem_freed, fac_out, fac_loc, fac_ret>>

\* the factory after H5FL_fac_init: linked, nothing allocated
InitFac ==
    /\ H5TS__init /\ LocksIdle /\ BlkIdle /\ build = "CONCURRENCY" /\ DlIdle /\ FlIdle
    /\ CoreIdle
    /\ fac_mutex = NoThread
    /\ fac_gc_mutex = NoThread
    /\ fac_allocated = 0
    /\ fac_onlist = 0
    /\ fac_mem_freed = 0
    /\ fac_linked = TRUE
    /\ fac_out = 0
    /\ fac_pc = [t \in Threads |-> "idle"]
    /\ fac_loc = [t \in Threads |-> 0]
    /\ fac_res = [t \in Threads |-> "none"]
    /\ fac_ret = [t \in Threads |-> "idle"]

NextFac ==
    \E t \in Threads :
        \/ H5FL_fac_malloc(t)
        \/ FacMallocGauge(t)
        \/ FacMallocCount(t)
        \/ H5FL_fac_free(t)
        \/ FacFreeGauge(t)
        \/ FacFreeGlobal(t)
        \/ FacGcList(t)
        \/ FacGcListGauge(t)
        \/ H5FL__fac_gc(t)
        \/ FacGcEnd(t)
        \/ H5FL_fac_term(t)
        \/ FacTermLock(t)
        \/ FacTermCheck(t)

SpecFac == InitFac /\ [][NextFac]_vars

\* C25: a thread that is not inside a free-list call holds no free-list mutex; every call has
\* given back the mutexes it took when it returns, with success or with an error.
C25_ReturnsUnlocked ==
    \A t \in Threads :
        fac_pc[t] = "idle" => (fac_mutex # t /\ fac_gc_mutex # t)

(* ------------------------------------------------------------------ *)
(* Core driver: the dirty-region list of a write-tracked file          *)
(* ------------------------------------------------------------------ *)

\* largest backing-store page size tried
MaxPageSize == 3

\* largest allocation increment tried
MaxIncrement == 3

\* largest size of the file that is opened
MaxInitEof == 3

\* writes end at or before this address
MaxAddr == 7

\* the NULL item
NoItem == [start |-> -1, end |-> -1]

\* H5SL_less(slist, key): the item with the greatest key strictly less than key
H5SL_less(list, key) ==
    LET S == {i \in 1..Len(list) : list[i].start < key} IN
    IF S = {} THEN NoItem
    ELSE list[CHOOSE i \in S : \A j \in S : list[j].start <= list[i].start]

\* H5SL_search(slist, key): the item with this key
H5SL_search(list, key) ==
    LET S == {i \in 1..Len(list) : list[i].start = key} IN
    IF S = {} THEN NoItem ELSE list[CHOOSE i \in S : TRUE]

\* H5SL_remove(slist, key): the list without the item with this key
H5SL_remove(list, key) ==
    SelectSeq(list, LAMBDA r : r.start # key)

\* H5SL_insert(slist, item, key): the item goes to its place in key order
H5SL_insert(list, item) ==
    LET k == Cardinality({i \in 1..Len(list) : list[i].start < item.start}) IN
    SubSeq(list, 1, k) \o <<item>> \o SubSeq(list, k + 1, Len(list))

\* item->end = end for the item with this key, which stays in the list
SetEnd(list, key, end) ==
    [i \in 1..Len(list) |->
        IF list[i].start = key THEN [list[i] EXCEPT !.end = end] ELSE list[i]]

\* variant: the nodes above the new start are left in the list
RemoveOld_KeepsAll(list, a_item, start) ==
    list

\* H5FD__core_add_dirty_region: while (a_item && a_item->start > start) remove a_item and go on
\* with the node below it
RECURSIVE RemoveOld(_, _, _)
RemoveOld(list, a_item, start) ==
    IF a_item # NoItem /\ a_item.start > start
    THEN LET less == H5SL_less(list, a_item.start - 1) IN
         RemoveOld(H5SL_remove(list, a_item.start), less, start)
    ELSE list

\* variant: the start of the region is left where the write starts
AlignStart_NoRounding(start, ps) ==
    start

\* start rounded down to a page boundary
AlignStart(start, ps) ==
    IF start % ps # 0 THEN (start \div ps) * ps ELSE start

\* end rounded up to the last byte of its page, clamped by "if (end > eof) end = eof - 1"
AlignEnd(end, ps, eof) ==
    IF end % ps # ps - 1
    THEN LET e == ((end \div ps) + 1) * ps - 1 IN
         IF e > eof THEN eof - 1 ELSE e
    ELSE end

\* H5FD__core_add_dirty_region(file, start, end): the dirty list after the call
H5FD__core_add_dirty_region(list, start0, end0, ps, eof) ==
    LET start1 == AlignStart(start0, ps)
        end1 == AlignEnd(end0, ps, eof)
        b_item == H5SL_less(list, start1 + 1)
        a_item == H5SL_less(list, end1 + 2)
        end2 == IF a_item # NoItem /\ start1 < a_item.start /\ end1 < a_item.end
                THEN a_item.end ELSE end1
        extend_prev == b_item # NoItem /\ start1 <= b_item.end + 1
        start2 == IF extend_prev THEN b_item.start ELSE start1
        kept == RemoveOld(list, a_item, start2)
    IN  IF ~extend_prev
        THEN LET item == H5SL_search(kept, start2) IN
             IF item = NoItem
             THEN H5SL_insert(kept, [start |-> start2, end |-> end2])
             ELSE SetEnd(kept, start2, IF item.end < end2 THEN end2 ELSE item.end)
        ELSE IF b_item.end < end2 THEN SetEnd(kept, b_item.start, end2) ELSE kept

\* the page of end reaches eof or beyond, so that the rounded end does not fit below eof
EndPastEof(end, ps, eof) ==
    end % ps # ps - 1 /\ ((end \div ps) + 1) * ps - 1 >= eof

\* variant: the buffer grows to the end of the write exactly
GrownEof_Exact(top, inc) ==
    top

\* new_eof of H5FD__core_write: the smallest multiple of the increment that holds addr + size
GrownEof(top, inc) ==
    inc * (top \div inc) + (IF top % inc # 0 THEN inc ELSE 0)

\* the bytes of the buffer below eof: what realloc followed by HDmemset(x + eof, 0,
\* new_eof - eof) keeps of the old buffer
BelowEof(mem, eof) ==
    [a \in 0..eof - 1 |-> mem[a]]

\* variant: the reallocation does not keep the old bytes of the buffer
MemAfterWrite_ZeroesRest(mem, addr, buf, eof) ==
    [a \in 0..eof - 1 |->
        IF a >= addr /\ a < addr + Len(buf) THEN buf[a - addr + 1] ELSE 0]

\* the bytes of the buffer after realloc to new_eof, the extension zeroed, and memcpy of buf
\* to mem + addr
MemAfterWrite(mem, addr, buf, eof) ==
    [a \in 0..eof - 1 |->
        IF a >= addr /\ a < addr + Len(buf) THEN buf[a - addr + 1]
        ELSE IF a \in DOMAIN mem THEN mem[a] ELSE 0]

\* H5FD__core_write(file, addr, size, buf), size = Len(buf)
H5FD__core_write(addr, size, buf) ==
    /\ size = Len(buf)
    /\ CoreFrame
    /\ LET top == addr + size
           eof == IF top > c_eof THEN GrownEof(top, c_increment) ELSE c_eof
       IN /\ c_eof' = eof
          /\ c_mem' = MemAfterWrite(BelowEof(c_mem, c_eof), addr, buf, eof)
          /\ IF c_tracking
             THEN /\ c_dirty_list' = H5FD__core_add_dirty_region(c_dirty_list, addr, top - 1,
                                                                 c_page_size, eof)
                  /\ c_clamped' = (c_clamped \/ EndPastEof(top - 1, c_page_size, eof))
             ELSE UNCHANGED <<c_dirty_list, c_clamped>>
    /\ c_written' = c_written \cup (addr..(addr + size - 1))
    /\ c_pages' = IF c_page_size = 0 THEN c_pages
                  ELSE c_pages \cup ((addr \div c_page_size)..((addr + size - 1) \div c_page_size))
    /\ c_shadow' = [a \in (DOMAIN c_shadow) \cup (addr..(addr + size - 1)) |->
                       IF a >= addr /\ a < addr + size THEN buf[a - addr + 1] ELSE c_shadow[a]]
    /\ c_rd' = <<>>
    /\ c_dirty' = TRUE
    /\ pc_last' = [op |-> "write"]
    /\ UNCHANGED <<c_increment, c_page_size, c_tracking, c_backing_store, c_file_opened,
                   c_write_tracking, c_flags, vars_pc, bs_bytes>>

\* H5FD__core_read(file, addr, size, buf): the bytes below eof come from the buffer, the
\* rest reads as zeros
H5FD__core_read(addr, size) ==
    /\ CoreFrame
    /\ c_rd' = [addr |-> addr, size |-> size,
                buf |-> [i \in 1..size |->
                            IF addr + i - 1 < c_eof THEN c_mem[addr + i - 1] ELSE 0]]
    /\ pc_last' = [op |-> "read"]
    /\ UNCHANGED <<c_eof, c_increment, c_page_size, c_dirty_list, c_written, c_pages,
                   c_clamped, c_tracking, c_mem, c_shadow, c_backing_store, c_file_opened,
                   c_write_tracking, c_flags,
                   vars_pc, vars_bs>>

\* size bytes of value 0
ZeroBuf(size) == [i \in 1..size |-> 0]

\* the backing file of size zero bytes, the buffer not modified yet
BsOpened(size) ==
    /\ c_dirty = FALSE
    /\ bs_bytes = [a \in 0..size - 1 |-> 0]

\* the fields of the POSIX file after H5FD__posix_common_open of a file of size bytes, and
\* after the read that loads an existing file (loaded)
PosixOpened(size, loaded, pread) ==
    /\ pc_eoa = 0
    /\ pc_flen = size
    /\ pc_pread = pread
    /\ pc_pos = IF loaded /\ ~pread /\ size > 0 THEN size ELSE HADDR_UNDEF
    /\ pc_op = IF loaded /\ ~pread /\ size > 0 THEN "READ" ELSE "UNKNOWN"
    /\ pc_off = IF loaded /\ ~pread /\ size > 0 THEN size ELSE 0
    /\ pc_last = [op |-> "none"]
    /\ BsOpened(size)

\* variant: the index is created for read-only files too
UseWriteTracking_ReadOnlyToo(fa, flags) ==
    fa.backing_store /\ fa.write_tracking /\ fa.page_size # 0

\* use_write_tracking of H5FD__core_open: the dirty list is created when the backing store
\* is on, the user asked for write tracking, the file is open for writing and the page size
\* is not zero
UseWriteTracking(fa, flags) ==
    fa.backing_store /\ fa.write_tracking /\ flags.rdwr /\ fa.page_size # 0

\* H5FD__core_open without a file image: fa the driver's properties [increment,
\* backing_store, write_tracking, page_size], flags [rdwr, creat], size the length of the
\* file found; a created file is empty, an existing file is loaded whole (its bytes zero)
CoreOpened(fa, flags, size, pread) ==
    /\ c_file_opened = (fa.backing_store \/ ~flags.creat)
    /\ c_eof = IF flags.creat THEN 0 ELSE size
    /\ PosixOpened(c_eof, ~flags.creat, pread)
    /\ c_increment = fa.increment
    /\ c_backing_store = fa.backing_store
    /\ c_mem = [a \in 0..c_eof - 1 |-> 0]
    /\ c_write_tracking = fa.write_tracking
    /\ c_page_size = fa.page_size
    /\ c_tracking = UseWriteTracking(fa, flags)
    /\ c_dirty_list = <<>>
    /\ c_flags = flags
    /\ c_written = {}
    /\ c_pages = {}
    /\ c_clamped = FALSE
    /\ c_shadow = <<>>
    /\ c_rd = <<>>

\* H5FD__core_open of an existing file with backing store and write tracking, for writing
H5FD__core_open ==
    \E inc \in 1..MaxIncrement, ps \in 1..MaxPageSize, size \in 0..MaxInitEof :
        CoreOpened([increment |-> inc, backing_store |-> TRUE, write_tracking |-> TRUE,
                    page_size |-> ps], [rdwr |-> TRUE, creat |-> FALSE], size, FALSE)

InitCore ==
    /\ H5TS__init /\ SyncIdle /\ build = "CONCURRENCY" /\ DlIdle /\ FlIdle
    /\ H5FD__core_open

NextCore ==
    \E addr \in 0..MaxAddr - 1, size \in 1..MaxAddr :
        addr + size <= MaxAddr /\ H5FD__core_write(addr, size, ZeroBuf(size))

SpecCore == InitCore /\ [][NextCore]_vars

\* the bytes of the dirty regions
DirtyBytes ==
    UNION {c_dirty_list[i].start..c_dirty_list[i].end : i \in 1..Len(c_dirty_list)}

\* the bytes of the pages touched by the writes
PageBytes ==
    UNION {(p * c_page_size)..(p * c_page_size + c_page_size - 1) : p \in c_pages}

\* C9: after any sequence of writes every dirty region has start <= end, no two regions
\* overlap, and the index holds them in increasing order of start.
C9_RegionsWellFormed ==
    /\ \A i \in 1..Len(c_dirty_list) : c_dirty_list[i].start <= c_dirty_list[i].end
    /\ \A i, j \in 1..Len(c_dirty_list) :
           i < j => c_dirty_list[i].end < c_dirty_list[j].start

\* two regions in the list, one of them grown over more than one page by a merge
C9_Witness ==
    /\ Len(c_dirty_list) >= 2
    /\ \E i \in 1..Len(c_dirty_list) :
           c_dirty_list[i].end - c_dirty_list[i].start + 1 > c_page_size
    /\ c_page_size > 1

\* C10: after any sequence of writes the bytes of the dirty regions are the bytes of the
\* pages touched by the writes that lie below the current eof.
C10_DirtyIsPagesBelowEof ==
    DirtyBytes = PageBytes \cap (0..c_eof - 1)

\* C11 taken without its proviso: whatever the file size, no two regions of the list lie on
\* the same page or on neighbouring pages.
C11_MergedWhateverEof ==
    \A i, j \in 1..Len(c_dirty_list) :
        i < j => (c_dirty_list[i].end \div c_page_size) + 1
                     < (c_dirty_list[j].start \div c_page_size)

C31_RegionsAlignedBelowEof ==
    \A i \in 1..Len(c_dirty_list) :
        /\ c_dirty_list[i].start % c_page_size = 0
        /\ c_dirty_list[i].end < c_eof

(* ------------------------------------------------------------------ *)
(* Core driver: the bytes of the buffer                                *)
(* ------------------------------------------------------------------ *)

\* writes and reads of this part end at or before this address
MaxMemAddr == 4

\* bytes are 0..MaxByte
MaxByte == 1

\* the buffers of a given size
Bufs(size) == [1..size -> 0..MaxByte]

\* an existing file of any content opened without backing store, loaded whole
InitMem ==
    /\ H5TS__init /\ SyncIdle /\ build = "CONCURRENCY" /\ DlIdle /\ FlIdle
    /\ c_eof \in 0..MaxInitEof
    /\ c_increment \in 1..MaxIncrement
    /\ c_page_size = 0
    /\ c_dirty_list = <<>>
    /\ c_written = {}
    /\ c_pages = {}
    /\ c_clamped = FALSE
    /\ c_tracking = FALSE
    /\ c_mem \in [0..c_eof - 1 -> 0..MaxByte]
    /\ c_shadow = <<>>
    /\ c_rd = <<>>
    /\ c_backing_store = FALSE
    /\ c_file_opened = TRUE
    /\ c_write_tracking = FALSE
    /\ c_flags = [rdwr |-> TRUE, creat |-> FALSE]
    /\ PosixOpened(c_eof, TRUE, FALSE)

NextMem ==
    \/ \E addr \in 0..MaxMemAddr - 1, size \in 1..MaxMemAddr :
           /\ addr + size <= MaxMemAddr
           /\ \E buf \in Bufs(size) : H5FD__core_write(addr, size, buf)
    \/ \E addr \in 0..MaxMemAddr - 1, size \in 1..MaxMemAddr :
           addr + size <= MaxMemAddr /\ H5FD__core_read(addr, size)

SpecMem == InitMem /\ [][NextMem]_vars

\* C12: a read returns, at every address that has been written, the byte of the last write
\* to that address: write(addr, buf) followed by read(addr, size), size <= len(buf), with no
\* write to that range in between, returns the first size bytes of buf, also when the write
\* had to grow the buffer.
C12_ReadReturnsLastWrite ==
    c_rd # <<>> =>
        \A i \in 1..c_rd.size :
            (c_rd.addr + i - 1) \in DOMAIN c_shadow =>
                c_rd.buf[i] = c_shadow[c_rd.addr + i - 1]

\* a read of a range that exists only because a write grew the buffer, returning the byte
\* written there, after a later write to another range
C12_Witness ==
    /\ c_rd # <<>>
    /\ c_rd.addr = MaxInitEof
    /\ c_rd.addr \in DOMAIN c_shadow
    /\ c_rd.buf[1] = 1
    /\ 0 \in DOMAIN c_shadow

(* ------------------------------------------------------------------ *)
(* Core driver: truncate                                               *)
(* ------------------------------------------------------------------ *)

\* H5FD__posix_common_set_eoa, through H5FD__core_set_eoa
H5FD__core_set_eoa(addr) ==
    /\ CoreFrame
    /\ pc_eoa' = addr
    /\ pc_last' = [op |-> "set_eoa"]
    /\ UNCHANGED <<vars_core, vars_bs, pc_pos, pc_op, pc_flen, pc_off, pc_pread>>

\* H5FD__posix_common_set_eof: the value file->eof takes
H5FD__posix_common_set_eof(addr) == addr

\* variant: the seek state survives a truncate that changes the file
H5FD__posix_common_truncate_KeepsSeek(file, new_eof0) ==
    LET new_eof == IF new_eof0 = HADDR_UNDEF THEN pc_eoa ELSE new_eof0
    IN [file EXCEPT !.eof = new_eof, !.flen = new_eof]

\* H5FD__posix_common_truncate on the fields [eof, flen, pos, op] of the POSIX file, all
\* system calls succeeding: ftruncate to new_eof (eoa when new_eof is undefined) unless the
\* tracked eof says the file has that size already
H5FD__posix_common_truncate(file, new_eof0) ==
    LET new_eof == IF new_eof0 = HADDR_UNDEF THEN pc_eoa ELSE new_eof0
    IN IF new_eof # file.eof
       THEN [eof |-> new_eof,
             flen |-> new_eof,
             pos |-> IF pc_pread THEN file.pos ELSE HADDR_UNDEF,
             op |-> IF pc_pread THEN file.op ELSE "UNKNOWN"]
       ELSE file

\* the fields of the POSIX file as a record
PosixFile == [eof |-> c_eof, flen |-> pc_flen, pos |-> pc_pos, op |-> pc_op]

\* the bytes of the backing file after ftruncate to length flen
BytesAfterTruncate(bytes, flen) ==
    [a \in 0..flen - 1 |-> IF a \in DOMAIN bytes THEN bytes[a] ELSE 0]

\* the buffer after realloc to new_eof with the extension zeroed
MemAfterTruncate(mem, eof, new_eof) ==
    [a \in 0..new_eof - 1 |-> IF a < eof THEN mem[a] ELSE 0]

\* variant: the non-closing form grows the buffer by one increment beyond its size
TruncateEof_FromEof(closing) ==
    IF closing THEN pc_eoa ELSE c_eof + c_increment

\* new_eof of H5FD__core_truncate
TruncateEof(closing) ==
    IF closing THEN pc_eoa ELSE GrownEof(pc_eoa, c_increment)

\* H5FD__core_truncate; the ledger notes whether the call repeats the call just before it
\* and whether the first call of the series changed the file
H5FD__core_truncate(closing) ==
    /\ CoreFrame
    /\ LET new_eof == TruncateEof(closing)
           acts == (~closing \/ c_backing_store) /\ c_eof # new_eof
           rep == pc_last.op = "truncate" /\ pc_last.closing = closing
       IN /\ IF acts
             THEN LET f == IF closing /\ c_file_opened /\ c_backing_store
                           THEN H5FD__posix_common_truncate(PosixFile, new_eof)
                           ELSE PosixFile
                  IN /\ c_mem' = MemAfterTruncate(c_mem, c_eof, new_eof)
                     /\ c_eof' = H5FD__posix_common_set_eof(new_eof)
                     /\ pc_flen' = f.flen
                     /\ pc_pos' = f.pos
                     /\ pc_op' = f.op
                     /\ bs_bytes' = BytesAfterTruncate(bs_bytes, f.flen)
             ELSE UNCHANGED <<c_mem, c_eof, pc_flen, pc_pos, pc_op, bs_bytes>>
          /\ pc_last' = [op |-> "truncate", closing |-> closing, rep |-> rep,
                         did |-> IF rep THEN pc_last.did ELSE acts]
    /\ UNCHANGED <<c_increment, c_page_size, c_dirty_list, c_written, c_pages, c_clamped,
                   c_tracking, c_shadow, c_rd, c_backing_store, c_file_opened,
                   c_write_tracking, c_flags, pc_eoa,
                   pc_off, pc_pread, c_dirty>>

\* size bytes of value 1
OneBuf(size) == [i \in 1..size |-> 1]

\* a core file just opened, with or without backing store; an existing file was read whole,
\* which leaves the seek state of a build without pread at the end of the file
InitTrunc ==
    /\ H5TS__init /\ SyncIdle /\ build = "CONCURRENCY" /\ DlIdle /\ FlIdle
    /\ c_backing_store \in BOOLEAN
    /\ c_file_opened \in BOOLEAN
    /\ c_backing_store => c_file_opened
    /\ c_eof \in 0..MaxInitEof
    /\ ~c_file_opened => c_eof = 0
    /\ c_write_tracking = FALSE
    /\ c_flags = [rdwr |-> TRUE, creat |-> ~c_file_opened \/ c_eof = 0]
    /\ c_increment \in 1..MaxIncrement
    /\ c_page_size = 0
    /\ c_dirty_list = <<>>
    /\ c_written = {}
    /\ c_pages = {}
    /\ c_clamped = FALSE
    /\ c_tracking = FALSE
    /\ c_mem = [a \in 0..c_eof - 1 |-> 0]
    /\ c_shadow = <<>>
    /\ c_rd = <<>>
    /\ pc_eoa = 0
    /\ pc_pread \in BOOLEAN
    /\ pc_flen = c_eof
    /\ pc_pos = IF ~pc_pread /\ c_eof > 0 THEN c_eof ELSE HADDR_UNDEF
    /\ pc_op = IF ~pc_pread /\ c_eof > 0 THEN "READ" ELSE "UNKNOWN"
    /\ pc_off = IF c_eof > 0 THEN c_eof ELSE 0
    /\ pc_last = [op |-> "none"]
    /\ BsOpened(pc_flen)

NextTrunc ==
    \/ \E addr \in 0..MaxMemAddr : H5FD__core_set_eoa(addr)
    \/ \E addr \in 0..MaxMemAddr - 1 : H5FD__core_write(addr, 1, OneBuf(1))
    \/ \E closing \in BOOLEAN : H5FD__core_truncate(closing)

SpecTrunc == InitTrunc /\ [][NextTrunc]_vars

\* the step is a truncate that repeats, with the same closing flag and the same eoa, the
\* truncate just before it
TruncateAgain ==
    /\ pc_last.op = "truncate"
    /\ pc_last'.op = "truncate"
    /\ pc_last'.rep

\* C13: truncate(eoa) immediately followed by truncate(eoa) is equivalent to a single call:
\* the second call changes neither eof, the length or the contents of the buffer, the length
\* of the backing file, nor the cached seek state, closing or not.
C13_TruncateIdempotent ==
    [][TruncateAgain => UNCHANGED <<c_eof, c_mem, pc_flen, pc_pos, pc_op, pc_off>>]_vars

\* a closing truncate that cut the buffer and the backing file and dropped the seek state
\* has been repeated
C13_Witness ==
    /\ pc_last.op = "truncate" /\ pc_last.rep /\ pc_last.did /\ pc_last.closing
    /\ c_backing_store /\ ~pc_pread
    /\ pc_flen = pc_eoa /\ c_eof = pc_eoa /\ pc_eoa = 1
    /\ pc_pos = HADDR_UNDEF

\* a truncate that grew the buffer to the next multiple of the increment has been repeated
C13_WitnessGrow ==
    /\ pc_last.op = "truncate" /\ pc_last.rep /\ pc_last.did /\ ~pc_last.closing
    /\ c_eof > pc_eoa /\ c_eof > MaxInitEof

(* ------------------------------------------------------------------ *)
(* Core driver: flush to the backing file                              *)
(* ------------------------------------------------------------------ *)

\* writes of this part end at or before this address
MaxFlushAddr == 3

\* the write system call that fails in a flush is one of the first MaxFlushFail, or none
MaxFlushFail == 2

\* the end-of-allocation address the library sets before it truncates
FlushEoa == 2

\* largest page size of this part
MaxFlushPage == 2


\* the POSIX file as H5FD__posix_common_write sees and changes it
FlushFile ==
    [bytes |-> bs_bytes, off |-> pc_off, pos |-> pc_pos, op |-> pc_op, eof |-> c_eof]

\* size bytes of the buffer from addr on
MemBuf(addr, size) == [i \in 1..size |-> c_mem[addr + i - 1]]

\* the length of a file
FileLen(bytes) == Cardinality(DOMAIN bytes)

\* the file after write(fd, buf, size) at offset at: bytes between the old end and at read
\* as zeros
BytesAfterWrite(bytes, at, buf) ==
    LET flen == FileLen(bytes)
        top == IF Len(buf) > 0 /\ at + Len(buf) > flen THEN at + Len(buf) ELSE flen
    IN [a \in 0..top - 1 |->
           IF a >= at /\ a < at + Len(buf) THEN buf[a - at + 1]
           ELSE IF a < flen THEN bytes[a] ELSE 0]

\* H5FD__posix_common_write(file, addr, size, buf) on the file record f, size = Len(buf);
\* ok = FALSE stands for a failing write system call
PosixWrite(f, addr, buf, ok) ==
    LET seek == ~pc_pread /\ (addr # f.pos \/ f.op # "WRITE")
        at == IF pc_pread \/ seek THEN addr ELSE f.off
        moved == IF ok THEN Len(buf) ELSE 0
    IN [bytes |-> IF ok THEN BytesAfterWrite(f.bytes, at, buf) ELSE f.bytes,
        off |-> IF pc_pread THEN f.off ELSE at + moved,
        pos |-> IF pc_pread \/ ~ok THEN HADDR_UNDEF ELSE addr + moved,
        op |-> IF pc_pread \/ ~ok THEN "UNKNOWN" ELSE "WRITE",
        eof |-> IF ok /\ addr + moved > f.eof THEN addr + moved ELSE f.eof,
        at |-> at]

\* variant: a region that reaches eof or beyond is skipped whole
Flushable_EndBelowEof(item, eof) ==
    item.end < eof

\* if (item->start < eof): the region is written
Flushable(item, eof) ==
    item.start < eof

\* if (item->end >= eof) item->end = eof - 1
CutEnd(item, eof) ==
    IF item.end >= eof THEN eof - 1 ELSE item.end

\* variant: the region with the greatest start is taken
H5SL_remove_first_TakesLast(list) ==
    Len(list)

\* H5SL_remove_first(slist): the place in the list of the item it removes and returns, the
\* one with the least key
H5SL_remove_first(list) ==
    1

\* the list without the item at place k
Without(list, k) ==
    SubSeq(list, 1, k - 1) \o SubSeq(list, k + 1, Len(list))

\* the while loop of H5FD__core_flush: H5SL_remove_first takes the region with the least
\* start; regions at or beyond eof are dropped, the others cut at eof and written; the
\* write number failAt fails, which leaves the loop with that region taken off the index
RECURSIVE FlushRegions(_, _, _, _, _)
FlushRegions(list, f, eof, failAt, log) ==
    IF list = <<>>
    THEN [f |-> f, list |-> list, ok |-> TRUE, log |-> log]
    ELSE LET item == list[H5SL_remove_first(list)]
             rest == Without(list, H5SL_remove_first(list))
         IN
         IF Flushable(item, eof)
         THEN LET end == CutEnd(item, eof)
                  size == (end - item.start) + 1
                  ok == Len(log) + 1 # failAt
                  g == PosixWrite(f, item.start, MemBuf(item.start, size), ok)
                  entry == [addr |-> item.start, size |-> size, at |-> g.at, ok |-> ok]
              IN IF ok
                 THEN FlushRegions(rest, g, eof, failAt, Append(log, entry))
                 ELSE [f |-> g, list |-> rest, ok |-> FALSE, log |-> Append(log, entry)]
         ELSE FlushRegions(rest, f, eof, failAt, log)

\* the else branch of H5FD__core_flush: the whole buffer in one write
FlushWhole(f, eof, failAt) ==
    LET ok == failAt # 1
        g == PosixWrite(f, 0, MemBuf(0, eof), ok)
    IN [f |-> g, list |-> c_dirty_list, ok |-> ok,
        log |-> <<[addr |-> 0, size |-> eof, at |-> g.at, ok |-> ok]>>]

\* if (file->dirty && file->file_opened && file->backing_store): the flush has work to do
FlushActs ==
    c_dirty /\ c_file_opened /\ c_backing_store

\* the writes of a flush that acts: region by region with a dirty list, else the whole buffer
FlushRun(failAt) ==
    IF c_tracking
    THEN FlushRegions(c_dirty_list, FlushFile, c_eof, failAt, <<>>)
    ELSE FlushWhole(FlushFile, c_eof, failAt)

\* H5FD__core_flush; the ledger keeps what the call found and the writes it made
H5FD__core_flush(failAt) ==
    /\ CoreFrame
    /\ IF FlushActs
       THEN LET r == FlushRun(failAt)
            IN /\ bs_bytes' = r.f.bytes
               /\ pc_flen' = FileLen(r.f.bytes)
               /\ pc_off' = r.f.off
               /\ pc_pos' = r.f.pos
               /\ pc_op' = r.f.op
               /\ c_eof' = r.f.eof
               /\ c_dirty_list' = r.list
               /\ c_dirty' = IF r.ok THEN FALSE ELSE c_dirty
               /\ c_written' = {}
               /\ c_pages' = {}
               /\ c_clamped' = FALSE
               /\ c_shadow' = <<>>
               /\ pc_last' = [op |-> "flush", acted |-> TRUE, ok |-> r.ok, writes |-> r.log,
                              mod |-> c_written, list |-> c_dirty_list, eof |-> c_eof]
       ELSE /\ pc_last' = [op |-> "flush", acted |-> FALSE, ok |-> TRUE, writes |-> <<>>,
                           mod |-> c_written, list |-> c_dirty_list, eof |-> c_eof]
            /\ UNCHANGED <<bs_bytes, pc_flen, pc_off, pc_pos, pc_op, c_eof, c_dirty_list,
                           c_dirty, c_written, c_pages, c_clamped, c_shadow>>
    /\ UNCHANGED <<c_increment, c_page_size, c_tracking, c_mem, c_rd, c_backing_store,
                   c_file_opened, c_write_tracking, c_flags, pc_eoa, pc_pread>>

\* H5FD__core_open of a file with backing store, created or existing, for writing, with or
\* without write tracking, in either build
InitFlush ==
    /\ H5TS__init /\ SyncIdle /\ build = "CONCURRENCY" /\ DlIdle /\ FlIdle
    /\ \E inc \in 1..MaxFlushPage, ps \in 1..MaxFlushPage, wt \in BOOLEAN, creat \in BOOLEAN,
          size \in 0..1, pread \in BOOLEAN :
           CoreOpened([increment |-> inc, backing_store |-> TRUE, write_tracking |-> wt,
                       page_size |-> ps], [rdwr |-> TRUE, creat |-> creat], size, pread)

NextFlush ==
    \/ \E addr \in 0..MaxFlushAddr - 1, size \in 1..MaxFlushAddr :
           /\ addr + size <= MaxFlushAddr
           /\ H5FD__core_write(addr, size, OneBuf(size))
    \/ \E failAt \in 0..MaxFlushFail : H5FD__core_flush(failAt)
    \/ H5FD__core_set_eoa(FlushEoa)
    \/ pc_eoa > 0 /\ \E closing \in BOOLEAN : H5FD__core_truncate(closing)

SpecFlush == InitFlush /\ [][NextFlush]_vars

\* if (H5FD__core_flush(...) < 0) HGOTO_ERROR: a failed flush takes the close to done
FlushEndsClose(flush_ok) ==
    ~flush_ok

\* H5FD__core_close: the flush, whose write number failAt fails; then the dirty list is
\* destroyed, the backing file closed and the buffer released, by the image_free callback
\* where the file has one (cb "ok" or "fail", else "none"); at the end the structure is
\* cleared and freed. The ledger keeps the steps the call reached.
H5FD__core_close(failAt, cb) ==
    /\ CoreFrame
    /\ LET acts == FlushActs
           r == FlushRun(failAt)
           flush_ok == ~acts \/ r.ok
           has_mem == c_mem # <<>>
       IN /\ IF acts
             THEN /\ bs_bytes' = r.f.bytes
                  /\ pc_flen' = FileLen(r.f.bytes)
                  /\ pc_off' = r.f.off
             ELSE UNCHANGED <<bs_bytes, pc_flen, pc_off>>
          /\ IF FlushEndsClose(flush_ok)
             THEN /\ pc_pos' = r.f.pos
                  /\ pc_op' = r.f.op
                  /\ c_eof' = r.f.eof
                  /\ c_dirty_list' = r.list
                  /\ pc_last' = [op |-> "close", ret |-> FALSE, flush_ok |-> FALSE,
                                 destroyed |-> FALSE, fd_closed |-> FALSE, freed |-> "no",
                                 had_list |-> c_tracking, had_fd |-> c_file_opened,
                                 had_mem |-> has_mem, cb |-> cb]
                  /\ UNCHANGED <<c_dirty, c_tracking, c_file_opened, c_mem, c_increment,
                                 c_page_size, c_backing_store, c_write_tracking, c_flags,
                                 c_rd, pc_eoa>>
             ELSE /\ pc_pos' = HADDR_UNDEF
                  /\ pc_op' = "UNKNOWN"
                  /\ c_eof' = 0
                  /\ c_dirty_list' = <<>>
                  /\ c_dirty' = FALSE
                  /\ c_tracking' = FALSE
                  /\ c_file_opened' = FALSE
                  /\ c_mem' = <<>>
                  /\ c_increment' = 1
                  /\ c_page_size' = 1
                  /\ c_backing_store' = FALSE
                  /\ c_write_tracking' = FALSE
                  /\ c_flags' = [rdwr |-> FALSE, creat |-> FALSE]
                  /\ c_rd' = <<>>
                  /\ pc_eoa' = 0
                  /\ pc_last' = [op |-> "close", ret |-> (cb # "fail" \/ ~has_mem),
                                 flush_ok |-> flush_ok,
                                 destroyed |-> TRUE, fd_closed |-> TRUE,
                                 freed |-> IF ~has_mem THEN "no"
                                           ELSE IF cb = "none" THEN "xfree" ELSE "callback",
                                 had_list |-> c_tracking, had_fd |-> c_file_opened,
                                 had_mem |-> has_mem, cb |-> cb]
    /\ c_written' = {}
    /\ c_pages' = {}
    /\ c_clamped' = FALSE
    /\ c_shadow' = <<>>
    /\ UNCHANGED pc_pread

\* the file is gone: a close went past its flush
Gone ==
    pc_last.op = "close" /\ pc_last.destroyed

\* a file with backing store is written, flushed and closed; a close that fails in its
\* flush leaves the file to the caller
NextClose ==
    \/ /\ ~Gone
       /\ \E addr \in 0..MaxFlushAddr - 1, size \in 1..MaxFlushAddr :
              /\ addr + size <= MaxFlushAddr
              /\ H5FD__core_write(addr, size, OneBuf(size))
    \/ /\ ~Gone
       /\ \E failAt \in 0..MaxFlushFail : H5FD__core_flush(failAt)
    \/ /\ ~Gone
       /\ \E failAt \in 0..MaxFlushFail, cb \in {"none", "ok", "fail"} :
              H5FD__core_close(failAt, cb)

SpecClose == InitFlush /\ [][NextClose]_vars

\* C36: whether or not its flush succeeds, a close destroys the dirty-region index, frees
\* the buffer (through the free callback if the file has one) and closes the backing file
\* if it is open.
C36_CloseReleasesAll ==
    pc_last.op = "close" =>
        /\ pc_last.had_list => pc_last.destroyed
        /\ pc_last.had_fd => pc_last.fd_closed
        /\ pc_last.had_mem =>
               pc_last.freed = (IF pc_last.cb = "none" THEN "xfree" ELSE "callback")

\* what holds: a close whose flush succeeds, or has nothing to do, releases everything
C36_AfterGoodFlush ==
    (pc_last.op = "close" /\ pc_last.flush_ok) =>
        /\ pc_last.destroyed /\ pc_last.fd_closed
        /\ pc_last.had_mem =>
               pc_last.freed = (IF pc_last.cb = "none" THEN "xfree" ELSE "callback")

\* C34: after a truncate with closing set on a file with backing store, eof and the length
\* of the backing file both equal the eoa.
C34_ClosingTruncateSetsBoth ==
    (pc_last.op = "truncate" /\ pc_last.closing /\ c_backing_store /\ c_file_opened) =>
        (c_eof = pc_eoa /\ pc_flen = pc_eoa)

\* the part of it that concerns eof
C34_EofIsEoa ==
    (pc_last.op = "truncate" /\ pc_last.closing /\ c_backing_store /\ c_file_opened) =>
        c_eof = pc_eoa

\* the last call was a flush that found a backing file and the dirty flag set
Flushed == pc_last.op = "flush" /\ pc_last.acted

\* C29: after a flush that succeeded on a file with backing store, every address below eof
\* that a write has modified since the flush before it is in the backing file and holds
\* there the byte the buffer holds: the dirty-region index misses no modified byte.
C29_FlushMissesNoByte ==
    (Flushed /\ pc_last.ok) =>
        \A a \in pc_last.mod :
            a < c_eof => (a \in DOMAIN bs_bytes /\ bs_bytes[a] = c_mem[a])

\* a flush of a write-tracked file has written two regions that two writes had left apart, and
\* the backing file has grown to hold both bytes
C29_Witness ==
    /\ Flushed /\ pc_last.ok /\ c_tracking
    /\ pc_last.mod = {0, 2}
    /\ Len(pc_last.list) = 2
    /\ c_eof > 2
    /\ bs_bytes[0] = 1 /\ bs_bytes[2] = 1

\* the regions the flush found that start below eof
FlushFound == SelectSeq(pc_last.list, LAMBDA r : r.start < pc_last.eof)

\* the writes of the flush are those of the rule: without an index one write of the whole
\* buffer [0, eof); with an index one write for each region that starts below eof, in the
\* order of the index, from the start of the region to its end or to eof - 1 if the end
\* lies beyond; every write goes to the address of its region, none reaches eof, and only
\* the last one can have failed
FlushWritesAsRuled ==
    LET w == pc_last.writes
        n == Len(w)
    IN /\ c_eof = pc_last.eof
       /\ IF c_tracking
          THEN /\ n <= Len(FlushFound)
               /\ pc_last.ok => n = Len(FlushFound)
               /\ \A i \in 1..n :
                      /\ w[i].addr = FlushFound[i].start
                      /\ w[i].size = Min(FlushFound[i].end, pc_last.eof - 1) - w[i].addr + 1
               /\ \A i \in 1..n - 1 : w[i].addr + w[i].size <= w[i + 1].addr
          ELSE n = 1 /\ w[1].addr = 0 /\ w[1].size = pc_last.eof
       /\ \A i \in 1..n :
              /\ w[i].at = w[i].addr
              /\ w[i].addr + w[i].size <= pc_last.eof
              /\ w[i].ok <=> (i < n \/ pc_last.ok)
       /\ FileLen(bs_bytes) = pc_flen

\* C30 as stated: after every flush that found a backing file and the dirty flag set, the
\* writes are those of the rule, the dirty flag is clear and the index is empty
C30_AsStated ==
    Flushed => (FlushWritesAsRuled /\ ~c_dirty /\ c_dirty_list = <<>>)

\* C30: a flush that finds a backing file and the dirty flag set writes the whole buffer
\* [0, eof) (no index) or takes the regions off the index in increasing order of start,
\* drops those that start at or beyond eof and writes the others cut at eof - 1; no byte at
\* or beyond eof is written. If every write succeeds the dirty flag is clear and the index
\* empty afterwards; if a write fails the flush stops there, the dirty flag stays set and
\* the index keeps the regions after the one whose write failed.
C30_FlushConsumesIndex ==
    Flushed =>
        /\ FlushWritesAsRuled
        /\ pc_last.ok => (~c_dirty /\ c_dirty_list = <<>>)
        /\ ~pc_last.ok =>
               /\ c_dirty
               /\ c_tracking =>
                      \E k \in 1..Len(pc_last.list) :
                          /\ pc_last.list[k].start = pc_last.writes[Len(pc_last.writes)].addr
                          /\ c_dirty_list = SubSeq(pc_last.list, k + 1, Len(pc_last.list))

\* a successful flush of an index of two regions: two writes, in the order of the index
C30_Witness ==
    /\ Flushed /\ pc_last.ok /\ c_tracking
    /\ Len(pc_last.list) = 2
    /\ Len(pc_last.writes) = 2
    /\ ~c_dirty /\ c_dirty_list = <<>>

\* a successful flush that cut a region which reached eof or beyond
C30_WitnessCut ==
    /\ Flushed /\ pc_last.ok /\ c_tracking
    /\ \E i \in 1..Len(pc_last.list) :
           pc_last.list[i].start < pc_last.eof /\ pc_last.list[i].end >= pc_last.eof

\* a successful flush that dropped a region which the file no longer reaches
C30_WitnessSkip ==
    /\ Flushed /\ pc_last.ok /\ c_tracking
    /\ Len(pc_last.writes) = 1
    /\ Len(pc_last.list) = 2

\* a successful flush of a file without index: one write of the whole buffer
C30_WitnessWhole ==
    /\ Flushed /\ pc_last.ok /\ ~c_tracking
    /\ pc_last.eof = MaxFlushAddr
    /\ \A a \in 0..MaxFlushAddr - 1 : bs_bytes[a] = c_mem[a]
    /\ c_mem[0] = 1

(* ------------------------------------------------------------------ *)
(* Recursive reader/writer lock                                        *)
(* ------------------------------------------------------------------ *)

\* the threads that use the lock: thread RwWriter asks for write locks, the others for read locks
NumRwThreads == 3

RwThreads == 1..NumRwThreads

RwWriter == 1

\* the deepest recursion a thread goes to
MaxRwDepth == 2

RwFrame == UNCHANGED <<vars_api, dlftt, vars_dl, vars_fl, vars_core, vars_bs, vars_pc, pc_last, vars_bar, vars_ti, vars_att, vars_blk, vars_fac>>

\* variant: a first read lock is granted whenever no writer holds the lock
RdGranted_IgnoresWaitingWriters(t) ==
    rw_lock_type # "WRITE"

\* a first read lock is granted when no writer holds the lock and no writer waits
RdGranted(t) ==
    rw_lock_type # "WRITE" /\ rw_waiting_writers_count = 0

\* a write lock is granted when the lock is unused
WrGranted(t) ==
    rw_lock_type = "UNUSED"

\* the threads woken when the lock becomes unused: one waiting writer if there is one
\* (signal on writers_cv), else every waiting reader (broadcast on readers_cv)
WokenAtRelease ==
    IF rw_waiting_writers_count > 0
    THEN {{w} : w \in {t \in RwThreads : rw_pc[t] = "wr_wait"}}
    ELSE {{t \in RwThreads : rw_pc[t] = "rd_wait"}}

TakeRead(t) ==
    /\ rw_lock_type' = "READ"
    /\ rw_active_reader_threads' = rw_active_reader_threads + 1
    /\ rw_rec_read_lock_count' = [rw_rec_read_lock_count EXCEPT ![t] = 1]
    /\ UNCHANGED <<rw_write_thread, rw_rec_write_lock_count, rw_waiting_writers_count>>

\* rdlock: one more hold for a thread that holds a read lock already; a first hold when it
\* is granted; else the thread waits on readers_cv
H5TS_rwlock_rdlock(t) ==
    /\ t # RwWriter
    /\ rw_pc[t] = "out"
    /\ RwFrame
    /\ IF rw_rec_read_lock_count[t] > 0
       THEN /\ rw_rec_read_lock_count[t] < MaxRwDepth
            /\ ~rw_done[t]
            /\ rw_rec_read_lock_count' = [rw_rec_read_lock_count EXCEPT ![t] = @ + 1]
            /\ UNCHANGED <<rw_lock_type, rw_write_thread, rw_rec_write_lock_count,
                           rw_waiting_writers_count, rw_active_reader_threads, rw_pc>>
       ELSE IF RdGranted(t)
            THEN TakeRead(t) /\ UNCHANGED rw_pc
            ELSE /\ rw_pc' = [rw_pc EXCEPT ![t] = "rd_wait"]
                 /\ UNCHANGED <<rw_lock_type, rw_write_thread, rw_rec_write_lock_count,
                                rw_waiting_writers_count, rw_active_reader_threads,
                                rw_rec_read_lock_count>>
    /\ UNCHANGED <<rw_woken, rw_done, rw_log>>

\* a reader woken on readers_cv tests its condition again
RdWake(t) ==
    /\ rw_pc[t] = "rd_wait"
    /\ t \in rw_woken
    /\ RwFrame
    /\ rw_woken' = rw_woken \ {t}
    /\ IF RdGranted(t)
       THEN TakeRead(t) /\ rw_pc' = [rw_pc EXCEPT ![t] = "out"]
       ELSE UNCHANGED <<rw_lock_type, rw_write_thread, rw_rec_write_lock_count,
                        rw_waiting_writers_count, rw_active_reader_threads,
                        rw_rec_read_lock_count, rw_pc>>
    /\ UNCHANGED <<rw_done, rw_log>>

\* wrlock: granted from the unused lock, one level deeper for the writer itself; else the
\* thread counts itself in waiting_writers_count and waits on writers_cv
H5TS_rwlock_wrlock_rec(t) ==
    /\ t = RwWriter
    /\ rw_pc[t] = "out"
    /\ RwFrame
    /\ IF WrGranted(t)
       THEN /\ rw_lock_type' = "WRITE"
            /\ rw_write_thread' = t
            /\ rw_rec_write_lock_count' = 1
            /\ UNCHANGED <<rw_waiting_writers_count, rw_pc>>
       ELSE IF rw_lock_type = "WRITE" /\ rw_write_thread = t
            THEN /\ rw_rec_write_lock_count < MaxRwDepth
                 /\ ~rw_done[t]
                 /\ rw_rec_write_lock_count' = rw_rec_write_lock_count + 1
                 /\ UNCHANGED <<rw_lock_type, rw_write_thread, rw_waiting_writers_count, rw_pc>>
            ELSE /\ rw_waiting_writers_count' = rw_waiting_writers_count + 1
                 /\ rw_pc' = [rw_pc EXCEPT ![t] = "wr_wait"]
                 /\ UNCHANGED <<rw_lock_type, rw_write_thread, rw_rec_write_lock_count>>
    /\ UNCHANGED <<rw_active_reader_threads, rw_rec_read_lock_count, rw_woken, rw_done, rw_log>>

\* a writer woken on writers_cv tests its condition again
WrWake(t) ==
    /\ rw_pc[t] = "wr_wait"
    /\ t \in rw_woken
    /\ RwFrame
    /\ rw_woken' = rw_woken \ {t}
    /\ IF WrGranted(t)
       THEN /\ rw_lock_type' = "WRITE"
            /\ rw_write_thread' = t
            /\ rw_rec_write_lock_count' = 1
            /\ rw_waiting_writers_count' = rw_waiting_writers_count - 1
            /\ rw_pc' = [rw_pc EXCEPT ![t] = "out"]
            /\ rw_log' = (rw_log \/ \E r \in RwThreads : rw_pc[r] = "rd_wait")
       ELSE UNCHANGED <<rw_lock_type, rw_write_thread, rw_rec_write_lock_count,
                        rw_waiting_writers_count, rw_pc, rw_log>>
    /\ UNCHANGED <<rw_active_reader_threads, rw_rec_read_lock_count, rw_done>>

\* unlock by a reader: one hold less; the last hold of the last reader leaves the lock unused
\* and wakes a waiting writer first
RdUnlock(t) ==
    /\ rw_pc[t] = "out"
    /\ rw_rec_read_lock_count[t] > 0
    /\ RwFrame
    /\ rw_rec_read_lock_count' = [rw_rec_read_lock_count EXCEPT ![t] = @ - 1]
    /\ rw_done' = [rw_done EXCEPT ![t] = rw_rec_read_lock_count[t] > 1]
    /\ IF rw_rec_read_lock_count[t] = 1
       THEN /\ rw_active_reader_threads' = rw_active_reader_threads - 1
            /\ IF rw_active_reader_threads = 1
               THEN /\ rw_lock_type' = "UNUSED"
                    /\ \E w \in WokenAtRelease : rw_woken' = rw_woken \cup w
               ELSE UNCHANGED <<rw_lock_type, rw_woken>>
       ELSE UNCHANGED <<rw_active_reader_threads, rw_lock_type, rw_woken>>
    /\ UNCHANGED <<rw_write_thread, rw_rec_write_lock_count, rw_waiting_writers_count, rw_pc,
                   rw_log>>

\* unlock by the writer: one level less; at depth zero the lock is unused and a waiting
\* writer is woken first, else all waiting readers
WrUnlock(t) ==
    /\ rw_pc[t] = "out"
    /\ rw_lock_type = "WRITE"
    /\ rw_write_thread = t
    /\ RwFrame
    /\ rw_rec_write_lock_count' = rw_rec_write_lock_count - 1
    /\ rw_done' = [rw_done EXCEPT ![t] = rw_rec_write_lock_count > 1]
    /\ IF rw_rec_write_lock_count = 1
       THEN /\ rw_lock_type' = "UNUSED"
            /\ rw_write_thread' = 0
            /\ \E w \in WokenAtRelease : rw_woken' = rw_woken \cup w
       ELSE UNCHANGED <<rw_lock_type, rw_write_thread, rw_woken>>
    /\ UNCHANGED <<rw_waiting_writers_count, rw_active_reader_threads,
                   rw_rec_read_lock_count, rw_pc, rw_log>>

H5TS_rwlock_init ==
    /\ rw_lock_type = "UNUSED"
    /\ rw_write_thread = 0
    /\ rw_rec_write_lock_count = 0
    /\ rw_waiting_writers_count = 0
    /\ rw_active_reader_threads = 0
    /\ rw_rec_read_lock_count = [t \in RwThreads |-> 0]
    /\ rw_pc = [t \in RwThreads |-> "out"]
    /\ rw_woken = {}
    /\ rw_done = [t \in RwThreads |-> FALSE]
    /\ rw_log = FALSE

InitRw ==
    /\ H5TS__init /\ build = "CONCURRENCY" /\ DlIdle /\ FlIdle /\ CoreIdle /\ BarIdle /\ TiIdle /\ AttIdle /\ BlkIdle /\ FacIdle
    /\ H5TS_rwlock_init

NextRw ==
    \E t \in RwThreads :
        \/ H5TS_rwlock_rdlock(t)
        \/ RdWake(t)
        \/ H5TS_rwlock_wrlock_rec(t)
        \/ WrWake(t)
        \/ RdUnlock(t)
        \/ WrUnlock(t)

SpecRw == InitRw /\ [][NextRw]_vars

\* every thread that can run does run in the end: a holder gives back its holds, a woken
\* waiter tests its condition again; nothing obliges a thread to ask for a lock
FairRw ==
    /\ SpecRw
    /\ \A t \in RwThreads :
           /\ WF_vars(RdUnlock(t))
           /\ WF_vars(WrUnlock(t))
           /\ WF_vars(WrWake(t))
           /\ WF_vars(RdWake(t))

NumBarThreads == 3

BarThreads == 1..NumBarThreads

\* the cycles a run goes through
MaxCycles == 3

BarFrame == UNCHANGED <<vars_api, dlftt, vars_dl, vars_fl, vars_core, vars_bs, vars_pc, pc_last, vars_rw, vars_ti, vars_att, vars_blk, vars_fac>>

\* init(N)
H5TS__barrier_init(N) ==
    /\ bar_threshold = N
    /\ bar_entered = 0
    /\ bar_pc = [t \in BarThreads |-> "out"]
    /\ bar_woken = {}
    /\ bar_cycle = 0
    /\ bar_arrived = 0
    /\ bar_mycycle = [t \in BarThreads |-> -1]
    /\ bar_returned = [t \in BarThreads |-> -1]

\* variant: the last arrival leaves the count as it is
EnteredAfterBroadcast_Kept(entered) == entered

\* the count the last arrival leaves behind
EnteredAfterBroadcast(entered) == 0

\* wait(), up to the point where the caller returns or sleeps on the cv: the count goes up
\* by one under the mutex; the last arrival wakes every sleeper and resets the count in the
\* same critical section, and returns; the others sleep
H5TS__barrier_wait(t) ==
    /\ bar_pc[t] = "out"
    /\ bar_cycle < MaxCycles
    /\ BarFrame
    /\ LET last == bar_arrived + 1 = bar_threshold
       IN /\ bar_arrived' = IF last THEN 0 ELSE bar_arrived + 1
          /\ bar_cycle' = IF last THEN bar_cycle + 1 ELSE bar_cycle
    /\ bar_mycycle' = [bar_mycycle EXCEPT ![t] = bar_cycle]
    /\ IF bar_entered + 1 = bar_threshold
       THEN /\ bar_woken' = {u \in BarThreads : bar_pc[u] = "wait"}
            /\ bar_entered' = EnteredAfterBroadcast(bar_entered + 1)
            /\ bar_returned' = [bar_returned EXCEPT ![t] = bar_cycle]
            /\ UNCHANGED bar_pc
       ELSE /\ bar_entered' = bar_entered + 1
            /\ bar_pc' = [bar_pc EXCEPT ![t] = "wait"]
            /\ UNCHANGED <<bar_woken, bar_returned>>
    /\ UNCHANGED bar_threshold

\* a sleeper released by the broadcast takes the mutex again and returns from wait()
BarrierReturn(t) ==
    /\ bar_pc[t] = "wait"
    /\ t \in bar_woken
    /\ BarFrame
    /\ bar_pc' = [bar_pc EXCEPT ![t] = "out"]
    /\ bar_woken' = bar_woken \ {t}
    /\ bar_returned' = [bar_returned EXCEPT ![t] = bar_mycycle[t]]
    /\ UNCHANGED <<bar_threshold, bar_entered, bar_cycle, bar_arrived, bar_mycycle>>

InitBar ==
    /\ H5TS__init /\ build = "CONCURRENCY" /\ DlIdle /\ FlIdle /\ CoreIdle /\ RwIdle /\ TiIdle /\ AttIdle /\ BlkIdle /\ FacIdle
    /\ \E N \in 1..NumBarThreads : H5TS__barrier_init(N)

NextBar ==
    \E t \in BarThreads :
        \/ H5TS__barrier_wait(t)
        \/ BarrierReturn(t)

SpecBar == InitBar /\ [][NextBar]_vars

NumTiThreads == 2

TiThreads == 1..NumTiThreads

\* the threads that run one after the other in one place
MaxLives == 3

TiFrame == UNCHANGED <<vars_api, dlftt, vars_dl, vars_fl, vars_core, vars_bs, vars_pc, pc_last, vars_rw, vars_bar, vars_att, vars_blk, vars_fac>>

NoLocals == [new_id |-> 0, tinfo_node |-> 0]

\* H5TS_thread_id of a thread that has its record: the id in the record
ThreadIdKnown(t) ==
    /\ ti_pc[t] = "out"
    /\ ti_key[t] # 0
    /\ TiFrame
    /\ ti_got' = ti_got \cup {<<t, ti_life[t], ti_id[ti_key[t]]>>}
    /\ UNCHANGED <<ti_next_thrd_id, ti_next_free, ti_mtx, ti_key, ti_id, ti_nodes, ti_pc,
                   ti_loc, ti_life>>

\* H5TS_thread_id of a thread without a record enters H5TS__tinfo_create and takes
\* H5TS_tinfo_mtx_s
TinfoCreateLock(t) ==
    /\ ti_pc[t] = "out"
    /\ ti_key[t] = 0
    /\ ti_mtx = 0
    /\ TiFrame
    /\ ti_mtx' = t
    /\ ti_pc' = [ti_pc EXCEPT ![t] = "create_cs"]
    /\ UNCHANGED <<ti_next_thrd_id, ti_next_free, ti_key, ti_id, ti_nodes, ti_loc, ti_life,
                   ti_got>>

\* variant: the id is taken before the counter is raised
NewId_BeforeIncrement(next_thrd_id) == next_thrd_id

\* new_id = ++H5TS_next_thrd_id_s
NewId(next_thrd_id) == next_thrd_id + 1

\* under the mutex: take the first recycled record if there is one, draw the id, unlock
TinfoCreateBody(t) ==
    /\ ti_pc[t] = "create_cs"
    /\ TiFrame
    /\ ti_loc' = [ti_loc EXCEPT ![t] =
                     [new_id |-> NewId(ti_next_thrd_id),
                      tinfo_node |-> IF ti_next_free # <<>> THEN Head(ti_next_free) ELSE 0]]
    /\ ti_next_free' = IF ti_next_free # <<>> THEN Tail(ti_next_free) ELSE ti_next_free
    /\ ti_next_thrd_id' = ti_next_thrd_id + 1
    /\ ti_mtx' = 0
    /\ ti_pc' = [ti_pc EXCEPT ![t] = "create_set"]
    /\ UNCHANGED <<ti_key, ti_id, ti_nodes, ti_life, ti_got>>

\* outside the mutex: allocate a record if none was recycled, clear it, store the id, set
\* the thread-local pointer; H5TS_thread_id returns the id
TinfoCreateFinish(t) ==
    /\ ti_pc[t] = "create_set"
    /\ TiFrame
    /\ LET fresh == ti_loc[t].tinfo_node = 0
           node == IF fresh THEN ti_nodes + 1 ELSE ti_loc[t].tinfo_node
       IN /\ ti_nodes' = IF fresh THEN ti_nodes + 1 ELSE ti_nodes
          /\ ti_id' = [n \in 1..ti_nodes' |-> IF n = node THEN ti_loc[t].new_id ELSE ti_id[n]]
          /\ ti_key' = [ti_key EXCEPT ![t] = node]
          /\ ti_got' = ti_got \cup {<<t, ti_life[t], ti_loc[t].new_id>>}
    /\ ti_loc' = [ti_loc EXCEPT ![t] = NoLocals]
    /\ ti_pc' = [ti_pc EXCEPT ![t] = "out"]
    /\ UNCHANGED <<ti_next_thrd_id, ti_next_free, ti_mtx, ti_life>>

\* the thread exits: the destroy hook of the key, H5TS__tinfo_destroy, puts its record in
\* front of the recycled records under the mutex; another thread starts in its place
H5TS__tinfo_destroy(t) ==
    /\ ti_pc[t] = "out"
    /\ ti_life[t] + 1 < MaxLives
    /\ ti_mtx = 0
    /\ TiFrame
    /\ ti_next_free' = IF ti_key[t] # 0 THEN <<ti_key[t]>> \o ti_next_free ELSE ti_next_free
    /\ ti_key' = [ti_key EXCEPT ![t] = 0]
    /\ ti_life' = [ti_life EXCEPT ![t] = @ + 1]
    /\ UNCHANGED <<ti_next_thrd_id, ti_mtx, ti_id, ti_nodes, ti_pc, ti_loc, ti_got>>

\* H5TS__tinfo_init
H5TS__tinfo_init ==
    /\ ti_next_thrd_id = 0
    /\ ti_next_free = <<>>
    /\ ti_mtx = 0
    /\ ti_key = [t \in TiThreads |-> 0]
    /\ ti_id = <<>>
    /\ ti_nodes = 0
    /\ ti_pc = [t \in TiThreads |-> "out"]
    /\ ti_loc = [t \in TiThreads |-> NoLocals]
    /\ ti_life = [t \in TiThreads |-> 0]
    /\ ti_got = {}

InitTi ==
    /\ H5TS__init /\ build = "CONCURRENCY" /\ DlIdle /\ FlIdle /\ CoreIdle /\ RwIdle /\ BarIdle /\ AttIdle /\ BlkIdle /\ FacIdle
    /\ H5TS__tinfo_init

NextTi ==
    \E t \in TiThreads :
        \/ ThreadIdKnown(t)
        \/ TinfoCreateLock(t)
        \/ TinfoCreateBody(t)
        \/ TinfoCreateFinish(t)
        \/ H5TS__tinfo_destroy(t)

SpecTi == InitTi /\ [][NextTi]_vars

\* C16: every id H5TS_thread_id returns is at least 1; two different threads, at the same
\* time or one after the other, on a fresh or on a recycled record, never get the same id;
\* and a thread gets the same id all its life.
C16_IdsUnique ==
    \A g, h \in ti_got :
        /\ g[3] >= 1
        /\ (g[1] = h[1] /\ g[2] = h[2]) <=> g[3] = h[3]

\* a thread got its id on a record recycled from a thread that had exited, while another
\* thread was drawing its own id
C16_Witness ==
    \E t, u \in TiThreads :
        /\ t # u
        /\ ti_life[t] > 0
        /\ ti_key[t] # 0
        /\ ti_nodes = 1
        /\ <<t, ti_life[t], ti_id[ti_key[t]]>> \in ti_got
        /\ ti_pc[u] = "create_set"

(* ------------------------------------------------------------------ *)
(* The attempt counter of the API lock                                 *)
(* ------------------------------------------------------------------ *)

\* the API calls a thread has open at one time
MaxNest == 2

\* the entries into H5TS_api_lock of a run
MaxEntries == 4

\* the part of the API lock state the calls below leave alone
AttFrame ==
    UNCHANGED <<build, pos, pc, arg_n, loop_u, acquired, prev_count, saved_dlftt, cb_entry,
                sum_n, other_holds, rel_sum_n, before, vars_dl, vars_fl, vars_core, vars_bs, vars_pc,
                pc_last, vars_rw, vars_bar, vars_ti, vars_blk, vars_fac>>

\* variant: the addition is lost
H5TS_atomic_fetch_add_uint_Lost(obj, arg) == obj

\* the value H5TS_atomic_fetch_add_uint leaves in the object
H5TS_atomic_fetch_add_uint(obj, arg) == obj + arg

\* a library API routine is entered, from the application or from a user callback:
\* H5TS_api_lock counts the attempt before it locks anything
ApiEnter(t) ==
    /\ att_pc[t] = "idle"
    /\ att_frames[t] # <<>> => att_frames[t][Len(att_frames[t])].cb
    /\ Len(att_frames[t]) < MaxNest
    /\ attempt_lock_count < MaxEntries
    /\ AttFrame
    /\ attempt_lock_count' = H5TS_atomic_fetch_add_uint(attempt_lock_count, 1)
    /\ att_pc' = [att_pc EXCEPT ![t] = "lock_wait"]
    /\ UNCHANGED <<api_mutex, lock_count, api_lock, dlftt, att_frames>>

\* the rest of H5TS_api_lock: H5TS_mutex_lock and lock_count++, or the DLFTT stored for the
\* caller and H5TS_rwlock_wrlock when it is 0
ApiEnterLock(t) ==
    /\ att_pc[t] = "lock_wait"
    /\ AttFrame
    /\ IF build = "THREADSAFE"
       THEN /\ MutexAvail(api_mutex, t)
            /\ api_mutex' = H5TS_mutex_lock(api_mutex, t)
            /\ lock_count' = lock_count + 1
            /\ UNCHANGED api_lock
       ELSE /\ dlftt[t] = 0 => RwWriteAvail(api_lock, t)
            /\ api_lock' = IF dlftt[t] = 0 THEN H5TS_rwlock_wrlock(api_lock, t) ELSE api_lock
            /\ UNCHANGED <<api_mutex, lock_count>>
    /\ att_frames' = [att_frames EXCEPT ![t] = Append(@, [dlftt |-> dlftt[t], cb |-> FALSE])]
    /\ att_pc' = [att_pc EXCEPT ![t] = "idle"]
    /\ UNCHANGED <<attempt_lock_count, dlftt>>

\* the API routine is left: H5TS_api_unlock
ApiLeave(t) ==
    /\ att_pc[t] = "idle"
    /\ att_frames[t] # <<>>
    /\ ~att_frames[t][Len(att_frames[t])].cb
    /\ AttFrame
    /\ IF build = "THREADSAFE"
       THEN /\ lock_count' = lock_count - 1
            /\ api_mutex' = H5TS_mutex_unlock(api_mutex, t)
            /\ UNCHANGED api_lock
       ELSE /\ api_lock' = IF att_frames[t][Len(att_frames[t])].dlftt = 0
                           THEN H5TS_rwlock_wrunlock(api_lock, t) ELSE api_lock
            /\ UNCHANGED <<api_mutex, lock_count>>
    /\ att_frames' = [att_frames EXCEPT ![t] = SubSeq(@, 1, Len(@) - 1)]
    /\ UNCHANGED <<attempt_lock_count, dlftt, att_pc>>

\* the API routine calls a user callback (H5TS_user_cb_prepare) or the callback returns
\* (H5TS_user_cb_restore)
ApiCallback(t) ==
    /\ att_pc[t] = "idle"
    /\ att_frames[t] # <<>>
    /\ AttFrame
    /\ LET n == Len(att_frames[t])
           cb == att_frames[t][n].cb
       IN /\ att_frames' = [att_frames EXCEPT ![t][n].cb = ~cb]
          /\ dlftt' = IF build = "CONCURRENCY"
                      THEN [dlftt EXCEPT ![t] = IF cb THEN H5TS__dec_dlftt(@)
                                                ELSE H5TS__inc_dlftt(@)]
                      ELSE dlftt
    /\ UNCHANGED <<api_mutex, lock_count, api_lock, attempt_lock_count, att_pc>>

InitAtt ==
    /\ H5TS__init /\ DlIdle /\ FlIdle /\ CoreIdle /\ RwIdle /\ BarIdle /\ TiIdle /\ BlkIdle /\ FacIdle
    /\ att_frames = [t \in Threads |-> <<>>]
    /\ att_pc = [t \in Threads |-> "idle"]

NextAtt ==
    \E t \in Threads :
        \/ ApiEnter(t)
        \/ ApiEnterLock(t)
        \/ ApiLeave(t)
        \/ ApiCallback(t)

SpecAtt == InitAtt /\ [][NextAtt]_vars

\* the step is the entry of some thread into H5TS_api_lock
EntryStep == \E t \in Threads : att_pc[t] = "idle" /\ att_pc'[t] = "lock_wait"

\* C17: every entry into the API lock raises the attempt counter by exactly one, whether the
\* lock is then taken at once, waited for, or not taken because the thread runs a user
\* callback; nothing else changes the counter, so that no increment is lost among threads.
C17_OnePerEntry ==
    [][attempt_lock_count' = attempt_lock_count + (IF EntryStep THEN 1 ELSE 0)]_vars

\* three entries have been counted: one thread is inside a call made from its user callback,
\* for which no lock was taken, and the other waits for the lock
C17_Witness ==
    /\ attempt_lock_count = 3
    /\ build = "CONCURRENCY"
    /\ \E t, u \in Threads :
           /\ Len(att_frames[t]) = 2
           /\ att_frames[t][2].dlftt > 0
           /\ att_pc[u] = "lock_wait"
           /\ att_frames[u] = <<>>

(* ------------------------------------------------------------------ *)
(* POSIX file: reads and writes with and without pread / pwrite        *)
(* ------------------------------------------------------------------ *)

\* reads and writes of this part start below this address
MaxPosAddr == 3

\* and move at most this many bytes
MaxPosSize == 2

NoIo == [op |-> "none"]

\* the last call without its own predecessor
Shallow(last) ==
    IF last.op = "io" THEN [last EXCEPT !.prev = NoIo]
    ELSE IF last.op = "sec2_truncate" THEN last
    ELSE NoIo

\* variant: the seek is left out whenever the position matches, whatever the last operation was
NeedSeek_PositionOnly(addr, kind) ==
    ~pc_pread /\ addr # pc_pos

\* H5FD__posix_common_seek is called: the build has no pread / pwrite and the position or
\* the kind of the last operation differs
NeedSeek(addr, kind) ==
    ~pc_pread /\ (addr # pc_pos \/ kind # pc_op)

\* the bytes a read of size bytes at addr gets from a file of length flen
BytesRead(addr, size, flen) ==
    IF addr >= flen THEN 0 ELSE IF addr + size > flen THEN flen - addr ELSE size

\* the state the core driver's fields are in for a file of another driver
PosixOnly ==
    /\ c_increment = 0
    /\ c_page_size = 0
    /\ c_dirty_list = <<>>
    /\ c_written = {}
    /\ c_pages = {}
    /\ c_clamped = FALSE
    /\ c_tracking = FALSE
    /\ c_mem = <<>>
    /\ c_shadow = <<>>
    /\ c_rd = <<>>
    /\ c_backing_store = FALSE
    /\ c_file_opened = FALSE
    /\ c_write_tracking = FALSE
    /\ c_flags = [rdwr |-> FALSE, creat |-> FALSE]
    /\ BsIdle

PosixFrame ==
    /\ CoreFrame
    /\ UNCHANGED vars_bs
    /\ UNCHANGED <<c_increment, c_page_size, c_dirty_list, c_written, c_pages, c_clamped,
                   c_tracking, c_mem, c_shadow, c_rd, c_backing_store, c_file_opened,
                   c_write_tracking, c_flags>>

\* haddr_t, HDoff_t and size_t have this many bits here (64 in the code), which keeps
\* every overflow case of the code within reach
AddrBits == 4

\* the bit pattern of HADDR_UNDEF in an argument: all ones
AllOnes == 2 ^ AddrBits - 1

\* H5_POSIX_MAXADDR: the largest value of the signed HDoff_t
H5_POSIX_MAXADDR == 2 ^ (AddrBits - 1) - 1

\* (HDoff_t)x: the unsigned x read as a signed number of the same width
AsOff(x) == IF x > H5_POSIX_MAXADDR THEN x - 2 ^ AddrBits ELSE x

\* H5F_addr_defined
H5F_addr_defined(A) == A # AllOnes

\* variant: only the undefined address counts as an overflow
H5FD_POSIX_ADDR_OVERFLOW_UndefOnly(A) ==
    A = AllOnes

\* H5FD_POSIX_ADDR_OVERFLOW: the address is undefined or has a bit above H5_POSIX_MAXADDR
H5FD_POSIX_ADDR_OVERFLOW(A) ==
    A = AllOnes \/ A > H5_POSIX_MAXADDR

\* H5FD_POSIX_SIZE_OVERFLOW
H5FD_POSIX_SIZE_OVERFLOW(Z) ==
    Z > H5_POSIX_MAXADDR

\* H5FD_POSIX_REGION_OVERFLOW; the sum is taken in haddr_t, modulo 2 ^ AddrBits
H5FD_POSIX_REGION_OVERFLOW(A, Z) ==
    \/ H5FD_POSIX_ADDR_OVERFLOW(A)
    \/ H5FD_POSIX_SIZE_OVERFLOW(Z)
    \/ (A + Z) % 2 ^ AddrBits = AllOnes
    \/ AsOff((A + Z) % 2 ^ AddrBits) < AsOff(A)

\* the checks at the head of a read or write: "badvalue", "overflow" or "none"
IoCheck(addr, size) ==
    IF ~H5F_addr_defined(addr) THEN "badvalue"
    ELSE IF H5FD_POSIX_REGION_OVERFLOW(addr, size) THEN "overflow"
    ELSE "none"

\* the ledger entry of a read or write that passed the checks; ok says that the seek, if
\* any, and the transfer succeeded
IoEntry(kind, addr, size, ok, moved) ==
    [op |-> "io", kind |-> kind, addr |-> addr, size |-> size, ok |-> ok,
     seek |-> NeedSeek(addr, kind),
     at |-> IF pc_pread \/ NeedSeek(addr, kind) THEN addr ELSE pc_off,
     moved |-> moved, pos0 |-> pc_pos, op0 |-> pc_op, prev |-> Shallow(pc_last)]

\* the ledger entry of a call that failed its checks, with the state it found
Rejected(kind, addr, size, err) ==
    [op |-> "rejected", kind |-> kind, addr |-> addr, size |-> size, err |-> err,
     pos0 |-> pc_pos, op0 |-> pc_op, eof0 |-> c_eof, eoa0 |-> pc_eoa]

\* the done: label of a failed read or write: without pread / pwrite the seek state is reset
IoFailed ==
    /\ pc_pos' = HADDR_UNDEF
    /\ pc_op' = "UNKNOWN"

\* variant: a failed call leaves the seek state as it found it
SeekStateAfter_KeptOnFailure(kind, ok, end) ==
    IF pc_pread THEN [pos |-> HADDR_UNDEF, op |-> "UNKNOWN"]
    ELSE IF ok THEN [pos |-> end, op |-> kind]
    ELSE [pos |-> pc_pos, op |-> pc_op]

\* file->pos and file->op at the end of a read or write that passed the checks: the address
\* after the bytes moved and the kind of the call, or unknown after a failure; a build with
\* pread / pwrite never sets them
SeekStateAfter(kind, ok, end) ==
    IF pc_pread \/ ~ok
    THEN [pos |-> HADDR_UNDEF, op |-> "UNKNOWN"]
    ELSE [pos |-> end, op |-> kind]

\* H5FD__posix_common_read; res says which system call fails: the lseek ("seek", where one
\* is made), the read ("io"), or none ("ok")
H5FD__posix_common_read(addr, size, res) ==
    /\ PosixFrame
    /\ res = "seek" => NeedSeek(addr, "READ")
    /\ IF IoCheck(addr, size) # "none"
       THEN /\ pc_last' = Rejected("READ", addr, size, IoCheck(addr, size))
            /\ IoFailed
            /\ UNCHANGED pc_off
       ELSE LET ok == res = "ok"
                moved == IF ok THEN BytesRead(addr, size, pc_flen) ELSE 0
            IN /\ pc_last' = IoEntry("READ", addr, size, ok, moved)
               /\ pc_off' = IF pc_pread \/ res = "seek" THEN pc_off ELSE pc_last'.at + moved
               /\ pc_pos' = SeekStateAfter("READ", ok, addr + moved).pos
               /\ pc_op' = SeekStateAfter("READ", ok, addr + moved).op
    /\ UNCHANGED <<c_eof, pc_eoa, pc_flen, pc_pread>>

\* variant: a write never moves eof
EofAfterWrite_Kept(eof, addr, moved, ok) ==
    eof

\* if (addr > file->eof) file->eof = addr, after the loop has moved addr past the bytes
\* written
EofAfterWrite(eof, addr, moved, ok) ==
    IF ok /\ addr + moved > eof THEN addr + moved ELSE eof

\* H5FD__posix_common_write; res as for the read
H5FD__posix_common_write(addr, size, res) ==
    /\ PosixFrame
    /\ res = "seek" => NeedSeek(addr, "WRITE")
    /\ IF IoCheck(addr, size) # "none"
       THEN /\ pc_last' = Rejected("WRITE", addr, size, IoCheck(addr, size))
            /\ IoFailed
            /\ UNCHANGED <<pc_off, pc_flen, c_eof>>
       ELSE LET ok == res = "ok"
                moved == IF ok THEN size ELSE 0
            IN /\ pc_last' = IoEntry("WRITE", addr, size, ok, moved)
               /\ pc_off' = IF pc_pread \/ res = "seek" THEN pc_off ELSE pc_last'.at + moved
               /\ pc_pos' = SeekStateAfter("WRITE", ok, addr + moved).pos
               /\ pc_op' = SeekStateAfter("WRITE", ok, addr + moved).op
               /\ pc_flen' = IF ok /\ pc_last'.at + moved > pc_flen
                             THEN pc_last'.at + moved ELSE pc_flen
               /\ c_eof' = EofAfterWrite(c_eof, addr, moved, ok)
    /\ UNCHANGED <<pc_eoa, pc_pread>>

\* H5FD__posix_common_set_eoa: an address that overflows is refused
H5FD__posix_common_set_eoa(addr) ==
    /\ PosixFrame
    /\ IF H5FD_POSIX_ADDR_OVERFLOW(addr)
       THEN /\ pc_last' = Rejected("SET_EOA", addr, 0, "overflow")
            /\ UNCHANGED pc_eoa
       ELSE /\ pc_eoa' = addr
            /\ pc_last' = [op |-> "set_eoa"]
    /\ UNCHANGED <<c_eof, pc_pos, pc_op, pc_flen, pc_off, pc_pread>>

\* H5FD__sec2_truncate: H5FD__posix_common_truncate to the eoa
H5FD__sec2_truncate ==
    /\ PosixFrame
    /\ LET f == H5FD__posix_common_truncate(PosixFile, HADDR_UNDEF)
       IN /\ c_eof' = f.eof
          /\ pc_flen' = f.flen
          /\ pc_pos' = f.pos
          /\ pc_op' = f.op
    /\ pc_last' = [op |-> "sec2_truncate", changed |-> (pc_eoa # c_eof)]
    /\ UNCHANGED <<pc_eoa, pc_off, pc_pread>>

\* H5FD__posix_common_open of a file of some length, in either build
InitPosix ==
    /\ H5TS__init /\ SyncIdle /\ build = "CONCURRENCY" /\ DlIdle /\ FlIdle
    /\ PosixOnly
    /\ c_eof \in 0..MaxInitEof
    /\ pc_flen = c_eof
    /\ pc_eoa = 0
    /\ pc_pos = HADDR_UNDEF
    /\ pc_op = "UNKNOWN"
    /\ pc_off = 0
    /\ pc_pread \in BOOLEAN
    /\ pc_last = NoIo

\* the outcomes of the system calls of a read or write
IoResults == {"ok", "seek", "io"}

NextPosix ==
    \/ \E addr \in 0..MaxPosAddr - 1, size \in 1..MaxPosSize, res \in IoResults :
           H5FD__posix_common_read(addr, size, res)
    \/ \E addr \in 0..MaxPosAddr - 1, size \in 1..MaxPosSize, res \in IoResults :
           H5FD__posix_common_write(addr, size, res)
    \/ \E addr \in 0..MaxPosAddr : H5FD__posix_common_set_eoa(addr)
    \/ H5FD__sec2_truncate

SpecPosix == InitPosix /\ [][NextPosix]_vars

\* the last two calls were successful reads at A and then at A + n, n the size of the first
TwoReads ==
    /\ ~pc_pread
    /\ pc_last.op = "io" /\ pc_last.kind = "READ" /\ pc_last.ok
    /\ pc_last.prev.op = "io" /\ pc_last.prev.kind = "READ" /\ pc_last.prev.ok
    /\ pc_last.addr = pc_last.prev.addr + pc_last.prev.size

\* the seek rule: without pread / pwrite a read or write seeks exactly when the address
\* differs from the last position or the kind from the last operation, the transfer takes
\* place at the address asked for, and a successful call leaves the position after the bytes
\* moved and its own kind
SeekRule ==
    (pc_last.op = "io" /\ ~pc_pread) =>
        /\ pc_last.seek <=> (pc_last.addr # pc_last.pos0 \/ pc_last.kind # pc_last.op0)
        /\ pc_last.at = pc_last.addr
        /\ pc_last.ok => (pc_pos = pc_last.addr + pc_last.moved /\ pc_op = pc_last.kind
                          /\ pc_off = pc_pos)

C18_WitnessEof ==
    /\ TwoReads
    /\ pc_last.prev.moved < pc_last.prev.size
    /\ pc_last.prev.seek /\ pc_last.seek

\* the last call was a truncate, or a read or write straight after one
AfterTruncate ==
    pc_last.op = "io" /\ pc_last.prev.op = "sec2_truncate"

C38_WitnessKept ==
    /\ AfterTruncate /\ ~pc_pread
    /\ ~pc_last.prev.changed /\ ~pc_last.seek /\ pc_last.ok

\* C37: without pread / pwrite, whenever the last operation on record is not unknown the
\* position on record is the offset of the descriptor, after any successful and failed
\* reads, writes, seeks and truncates; so a read or write that leaves out its seek moves
\* its bytes at the address asked for.
C37_PosIsOffset ==
    /\ (~pc_pread /\ pc_op # "UNKNOWN") => pc_pos = pc_off
    /\ (~pc_pread /\ pc_last.op = "io" /\ ~pc_last.seek) => pc_last.at = pc_last.addr

\* a write that leaves out its seek, straight after a write that had to seek away from a
\* position on record
C37_Witness ==
    /\ ~pc_pread
    /\ pc_last.op = "io" /\ pc_last.kind = "WRITE" /\ pc_last.ok /\ ~pc_last.seek
    /\ pc_last.prev.op = "io" /\ pc_last.prev.kind = "WRITE" /\ pc_last.prev.seek
    /\ pc_last.prev.pos0 # HADDR_UNDEF
    /\ pc_off = pc_last.addr + pc_last.size

\* the last call was a successful write
WroteLast ==
    pc_last.op = "io" /\ pc_last.kind = "WRITE" /\ pc_last.ok

\* C39: after every successful write of size bytes at addr, eof is at least addr + size,
\* and no read or write, successful or not, lowers eof; so after any sequence of writes eof
\* is at least the largest offset written.
C39_WritesExtendEof ==
    /\ [](WroteLast => c_eof >= pc_last.addr + pc_last.size)
    /\ [][pc_last'.op \in {"io", "rejected"} => c_eof' >= c_eof]_vars

\* a write beyond the eof a truncate had lowered before it
C39_Witness ==
    /\ WroteLast
    /\ pc_last.prev.op = "sec2_truncate" /\ pc_last.prev.changed
    /\ c_eof = pc_last.addr + pc_last.size
    /\ c_eof > pc_eoa /\ pc_eoa > 0

(* ------------------------------------------------------------------ *)
(* POSIX file: addresses and sizes at the edge of the offset type      *)
(* ------------------------------------------------------------------ *)

\* the addresses tried: zero, around H5_POSIX_MAXADDR and the pattern of HADDR_UNDEF
EdgeAddrs ==
    {0, H5_POSIX_MAXADDR - 1, H5_POSIX_MAXADDR, H5_POSIX_MAXADDR + 1, AllOnes}

\* the sizes tried
EdgeSizes ==
    {1, H5_POSIX_MAXADDR, H5_POSIX_MAXADDR + 1}

NextOvf ==
    \/ \E addr \in EdgeAddrs, size \in EdgeSizes, res \in {"ok", "io"} :
           H5FD__posix_common_read(addr, size, res)
    \/ \E addr \in EdgeAddrs, size \in EdgeSizes, res \in {"ok", "io"} :
           H5FD__posix_common_write(addr, size, res)
    \/ \E addr \in EdgeAddrs : H5FD__posix_common_set_eoa(addr)

SpecOvf == InitPosix /\ [][NextOvf]_vars

\* a region of size bytes at addr that lies within the offsets 0..H5_POSIX_MAXADDR
InRange(addr, size) ==
    addr <= H5_POSIX_MAXADDR /\ size <= H5_POSIX_MAXADDR /\ addr + size <= H5_POSIX_MAXADDR

\* the calls are refused exactly for the regions and addresses out of range
RefusedAsRuled ==
    /\ pc_last.op = "io" => InRange(pc_last.addr, pc_last.size)
    /\ pc_last.op = "rejected" => ~InRange(pc_last.addr, pc_last.size)
    /\ pc_eoa <= H5_POSIX_MAXADDR

CoreFapls ==
    [increment : {1}, backing_store : BOOLEAN, write_tracking : BOOLEAN,
     page_size : 0..MaxPageSize]

\* the flags of the open; a file that is created is open for writing
OpenFlags == {f \in [rdwr : BOOLEAN, creat : BOOLEAN] : f.creat => f.rdwr}

InitOpen ==
    /\ H5TS__init /\ SyncIdle /\ build = "CONCURRENCY" /\ DlIdle /\ FlIdle
    /\ \E fa \in CoreFapls, flags \in OpenFlags, size \in 0..MaxInitEof :
           CoreOpened(fa, flags, size, FALSE)

\* the writes the library sends to a file open for writing
NextOpen ==
    \E addr \in 0..MaxMemAddr - 1, size \in 1..MaxMemAddr :
        /\ addr + size <= MaxMemAddr
        /\ c_flags.rdwr
        /\ H5FD__core_write(addr, size, ZeroBuf(size))

SpecOpen == InitOpen /\ [][NextOpen]_vars

\* C19 as stated: the index exists whenever write tracking is enabled, the mode is
\* read/write and the page size is not zero; it does not exist when the page size is zero;
\* and there are dirty regions only if write tracking is enabled
C19_AsStated ==
    /\ (c_write_tracking /\ c_flags.rdwr /\ c_page_size # 0) => c_tracking
    /\ c_page_size = 0 => ~c_tracking
    /\ c_dirty_list # <<>> => c_write_tracking

\* C19: the index exists exactly when the backing store is on, write tracking is enabled,
\* the mode is read/write and the page size is not zero; and there are dirty regions only
\* if the index exists, hence only if write tracking is enabled.
C19_IndexIffTracked ==
    /\ c_tracking <=> (c_backing_store /\ c_write_tracking /\ c_flags.rdwr /\ c_page_size # 0)
    /\ c_dirty_list # <<>> => (c_tracking /\ c_write_tracking)

\* a file opened with write tracking has a dirty region after a write
C19_Witness ==
    /\ c_tracking /\ c_write_tracking /\ c_flags.rdwr /\ c_backing_store
    /\ c_dirty_list # <<>>

\* a file opened with write tracking but without backing store has been written and has
\* neither index nor dirty regions
C19_WitnessNoStore ==
    /\ c_write_tracking /\ c_flags.rdwr /\ c_page_size # 0 /\ ~c_backing_store
    /\ ~c_tracking
    /\ c_written # {}

(* ------------------------------------------------------------------ *)
(* Core driver: the initial content and the length of the buffer       *)
(* ------------------------------------------------------------------ *)

\* largest initial content, in bytes
MaxImage == 2

\* writes and reads of this part end at or before this address
MaxImageAddr == 3

\* largest increment of this part
MaxImageIncr == 2

\* the byte of the initial content at address a (never zero)
ImageByte(a) == 1 + (a % 2)

\* the length of the buffer file->mem
MemLen == Cardinality(DOMAIN c_mem)

\* H5FD__core_get_eof
H5FD__core_get_eof == c_eof

\* H5FD__core_open, without H5F_ACC_CREAT, of S bytes of initial content: of an existing
\* file (image = FALSE), which H5FD__posix_common_open stats and H5FD__posix_common_read
\* loads, or of an initial file image (image = TRUE), for which no file of the name may
\* exist: a backing file is then created empty if the backing store is on, and none is
\* opened otherwise. The buffer gets S bytes in both cases. The ledger c_shadow takes the
\* initial content.
CoreOpenedContent(inc, bs, S, image, pread) ==
    LET loaded == ~image /\ ~pread IN
    /\ c_file_opened = (bs \/ ~image)
    /\ c_eof = IF image THEN 0 ELSE S
    /\ pc_eoa = 0
    /\ pc_flen = c_eof
    /\ pc_pread = pread
    /\ pc_pos = IF loaded THEN S ELSE HADDR_UNDEF
    /\ pc_op = IF loaded THEN "READ" ELSE "UNKNOWN"
    /\ pc_off = IF loaded THEN S ELSE 0
    /\ pc_last = [op |-> "none"]
    /\ c_dirty = FALSE
    /\ bs_bytes = [a \in 0..pc_flen - 1 |-> ImageByte(a)]
    /\ c_increment = inc
    /\ c_backing_store = bs
    /\ c_mem = [a \in 0..S - 1 |-> ImageByte(a)]
    /\ c_write_tracking = FALSE
    /\ c_page_size = 0
    /\ c_tracking = FALSE
    /\ c_dirty_list = <<>>
    /\ c_flags = [rdwr |-> TRUE, creat |-> FALSE]
    /\ c_written = {}
    /\ c_pages = {}
    /\ c_clamped = FALSE
    /\ c_shadow = [a \in 0..S - 1 |-> ImageByte(a)]
    /\ c_rd = <<>>

InitImage ==
    /\ H5TS__init /\ SyncIdle /\ build = "CONCURRENCY" /\ DlIdle /\ FlIdle
    /\ \E inc \in 1..MaxImageIncr, bs \in BOOLEAN, S \in 1..MaxImage, image \in BOOLEAN :
           CoreOpenedContent(inc, bs, S, image, FALSE)

NextImage ==
    \/ \E addr \in 0..MaxImageAddr - 1, size \in 1..MaxImageAddr :
           /\ addr + size <= MaxImageAddr
           /\ H5FD__core_write(addr, size, ZeroBuf(size))
    \/ \E addr \in 0..MaxImageAddr - 1, size \in 1..MaxImageAddr :
           addr + size <= MaxImageAddr /\ H5FD__core_read(addr, size)

SpecImage == InitImage /\ [][NextImage]_vars

\* C33: after an open with S bytes of initial content get_eof reports S, and a read
\* returns, at every address of the initial content or of a write, the byte written there
\* last or else the byte of the initial content.
C33_InitialContentKept ==
    /\ c_written = {} => H5FD__core_get_eof = Cardinality(DOMAIN c_shadow)
    /\ c_rd # <<>> =>
           \A i \in 1..c_rd.size :
               (c_rd.addr + i - 1) \in DOMAIN c_shadow =>
                   c_rd.buf[i] = c_shadow[c_rd.addr + i - 1]

\* the same for the files whose initial content came from an existing file
C33_FromFileKept ==
    c_file_opened /\ pc_flen > 0 => C33_InitialContentKept

NextLen ==
    \/ \E addr \in 0..MaxImageAddr - 1, size \in 1..MaxImageAddr :
           /\ addr + size <= MaxImageAddr
           /\ H5FD__core_write(addr, size, ZeroBuf(size))
    \/ \E addr \in 1..MaxImageAddr : H5FD__core_set_eoa(addr)
    \/ pc_eoa > 0 /\ \E closing \in BOOLEAN : H5FD__core_truncate(closing)

SpecLen == InitImage /\ [][NextLen]_vars

\* C32 as stated: the length of the buffer is always a multiple of the increment and at
\* least eof
C32_AsStated ==
    MemLen % c_increment = 0 /\ MemLen >= c_eof

\* the step changes the length of the buffer
LenChanges == MemLen' # MemLen

\* C32: between open and close the buffer is never shorter than eof. Open allocates
\* exactly the bytes of the initial content; a write or a non-closing truncate that changes
\* the length of the buffer makes it a multiple of the increment, equal to the new eof; a
\* closing truncate that changes it makes it the eoa.
C32_BufferCoversEof ==
    /\ [](MemLen >= c_eof)
    /\ [][/\ (LenChanges /\ pc_last'.op = "write") =>
                 (MemLen' % c_increment = 0 /\ MemLen' = c_eof')
          /\ (LenChanges /\ pc_last'.op = "truncate") =>
                 IF pc_last'.closing
                 THEN MemLen' = pc_eoa /\ MemLen' = c_eof'
                 ELSE MemLen' % c_increment = 0 /\ MemLen' = c_eof' /\ MemLen' >= pc_eoa]_vars

\* a write has grown a buffer of one byte to two increments
C32_Witness ==
    /\ pc_last.op = "write"
    /\ c_increment = 2
    /\ MemLen = 4 /\ c_eof = 4
    /\ Cardinality(DOMAIN c_shadow \ c_written) = 1

\* the step is a truncate without closing
TruncatesOpen == pc_last'.op = "truncate" /\ ~pc_last'.closing

\* C35: a truncate without closing leaves eof and the length of the buffer at the eoa
\* rounded up to a multiple of the increment, every byte added to the buffer zero, the
\* bytes the buffer had unchanged, and the backing file as it was.
C35_TruncateGrowsOnly ==
    [][TruncatesOpen =>
          /\ c_eof' = GrownEof(pc_eoa, c_increment)
          /\ MemLen' = c_eof'
          /\ \A a \in DOMAIN c_mem' :
                 c_mem'[a] = IF a \in DOMAIN c_mem THEN c_mem[a] ELSE 0
          /\ UNCHANGED <<bs_bytes, pc_flen, pc_off>>]_vars

\* the same for the files that were not opened with a file image
C35_WithoutImage ==
    [][(TruncatesOpen /\ MemLen = c_eof) =>
          /\ c_eof' = GrownEof(pc_eoa, c_increment)
          /\ MemLen' = c_eof'
          /\ \A a \in DOMAIN c_mem' :
                 c_mem'[a] = IF a \in DOMAIN c_mem THEN c_mem[a] ELSE 0
          /\ UNCHANGED <<bs_bytes, pc_flen, pc_off, pc_pos, pc_op>>]_vars

====
